---- MODULE Spec2Model ----
(***************************************************************************)
(* Model of the task scheduler of the village runtime:                     *)
(* core/swarm/task.py (Task, the message pump), core/swarm/swarm.py        *)
(* (Swarm.invoke), core/agent_message/agent_message.py (AgentMessage) and  *)
(* the invoke methods of the agents in agents/; of the tool-call loop of   *)
(* core/agent/agent_base.py; and of the roster, core/swarm/roster.py.      *)
(*                                                                         *)
(* Nine specifications share the variables: Spec follows the pump with     *)
(* agents that answer as a whole, SpecLoop follows one agent.invoke call   *)
(* step by step, SpecRoster follows calls on the roster, SpecSwarm follows *)
(* overlapping Swarm.invoke calls and registry calls on one Swarm,         *)
(* SpecCodec takes a message through to_dict and from_dict, SpecAdapter    *)
(* follows one chat call of an adapter of core/llm_api/api_adapters.py,    *)
(* SpecSchema reads the parameter schema of a tool                         *)
(* (core/tool/tool_base.py), SpecConvert converts a message list for the   *)
(* Gemini adapter, and SpecTick follows a pump entered with an empty pool. *)
(*                                                                         *)
(* In Spec one Task is modelled.  Task.invoke may be called several times on it    *)
(* (Swarm.invoke with the same task_id finds the same Task); the calls are *)
(* numbered 1..MaxInvokes and each call has its own local variables        *)
(* (iterations, message, agent) while message_pool and message_history     *)
(* belong to the task.                                                     *)
(***************************************************************************)
EXTENDS Integers, Sequences, FiniteSets, TLC

\* ------------------------------------------------------------------ values

\* Task.MAX_ITERATIONS (task.py:14)
MAX_ITERATIONS == 50

\* Bounds of the model.
MaxInvokes == 2      \* Task.invoke calls made on the task
MaxAgents  == 2      \* agents registered in the Swarm
MaxPasses  == 102    \* loop passes of one call that the model follows

\* Python's None
None == "None"

\* Task.task_id (task.py:24), a fresh uuid
TaskId == "T1"

\* Card names of the agents that can be registered.  "Eric" and "Worker" are
\* agents whose invoke is shaped like Coordinator.invoke / Coder.invoke;
\* "Echo" is the Echoer.
AgentNames == {"Eric", "Worker", "Echo"}

\* Receivers an agent's reply can name: the user sentinel, the card names, a
\* name nobody carries, and None (the reply's JSON has no "receiver").
Receivers == {"user", "Eric", "Worker", "Echo", "Ghost", None}

\* What one agent.invoke call can do: return a message for a receiver,
\* return None ("null"), or raise ("raise").
Outcomes == Receivers \cup {"null", "raise"}

Calls == 1 .. MaxInvokes

VARIABLES
    agents,           \* Swarm.agents / Task.agents: the registered card names, in insertion order
    message_pool,     \* Task.message_pool
    message_history,  \* Task.message_history
    pc,               \* pc[c]: where call c of Task.invoke stands
    iterations,       \* iterations[c]: the local counter of _process_messages
    message,          \* message[c]: the local `message` of _process_messages
    agent,            \* agent[c]: the name under which the local `agent` is registered
    result,           \* result[c]: the message the call returned
    last,             \* last[c]: what the latest loop pass of call c did
    passes,           \* passes[c]: loop passes call c has made
    plan,             \* plan[a][k]: what agent a does with an inbound message of kind k
    next_id,          \* number of AgentMessage objects created so far
    enqueued          \* every message appended to message_pool, in order of the appends

\* The state of one agent.invoke call (Coordinator.invoke, Coder.invoke) and
\* of the tool-call loop it runs (AgentBase._execute_tool_calls_loop).
VARIABLES
    lpc,              \* where the agent.invoke call stands
    model_calls,      \* the tool calls the model asks for whenever it asks for tools
    llm_messages,     \* the caller's list: `llm_messages` of invoke, `messages` of the loop
    working_messages, \* the loop's local `working_messages`
    response,         \* the loop's local `response`: the latest completion
    iteration,        \* the loop's local `iteration`
    requests,         \* completion requests sent to the provider by this invoke
    tool_results,     \* `tool_results` of the latest round
    ran,              \* ids of the tool calls for which tool.run was called, in order
    final_response,   \* what _execute_tool_calls_loop returned
    invoke_result     \* the AgentMessage that invoke returned

\* The Roster of the Swarm (core/swarm/roster.py).
VARIABLES
    cards,            \* Roster.cards: the registered cards, in list order
    agent_map         \* Roster.agent_map: card name -> card

pump_vars == <<agents, message_pool, message_history, pc, iterations, message, agent,
               result, last, passes, plan, next_id, enqueued>>

loop_vars == <<lpc, model_calls, llm_messages, working_messages, response, iteration,
               requests, tool_results, ran, final_response, invoke_result>>

roster_vars == <<cards, agent_map>>

\* A Swarm on which callers register agents and make overlapping
\* Swarm.invoke calls (core/swarm/swarm.py), with the tasks it holds.
VARIABLES
    swarm_agents,     \* Swarm.agents, which is Task.agents of every task: card name -> agent
    swarm_tasks,      \* the keys of Swarm.tasks
    task_ids,         \* task_ids[k]: task_id of the task under key k, NoTask while there is none
    agent_task,       \* agent_task[a]: the task that a.task, a.task_id and the adapter's task_id name
    task_pool,        \* task_pool[t]: message_pool of the task under key t
    task_history,     \* task_history[t]: message_history of the task under key t
    call_pc,          \* call_pc[c]: where the Swarm.invoke call of caller c stands
    call_task,        \* call_task[c]: the key of the task the call runs on
    call_agent,       \* call_agent[c]: the agent whose invoke the call awaits
    call_message,     \* call_message[c]: the local `message` of the call's pump
    call_iterations,  \* call_iterations[c]: the local `iterations` of the call's pump
    call_passes,      \* call_passes[c]: loop passes the call has made
    running,          \* the caller whose coroutine the event loop is running, 0 for none
    registry_calls    \* register_agent and unregister_agent calls made so far

swarm_vars == <<swarm_agents, swarm_tasks, task_ids, agent_task, task_pool, task_history,
                call_pc, call_task, call_agent, call_message, call_iterations,
                call_passes, running, registry_calls>>

\* One message taken through to_dict and from_dict
\* (core/agent_message/agent_message.py).
VARIABLES
    original,         \* the message m
    data,             \* m.to_dict()
    restored          \* AgentMessage.from_dict(data)

codec_vars == <<original, data, restored>>

\* One chat call of an adapter (core/llm_api/api_adapters.py).
VARIABLES
    provider,         \* the adapter that was created
    backend,          \* what the provider answered
    completion        \* what chat returned: _format_response(backend)

adapter_vars == <<provider, backend, completion>>

\* One tool and the projection of its parameters (core/tool/tool_base.py).
VARIABLES
    parameters,       \* ToolBase.parameters: name -> (type, description), in declaration order
    schema            \* what the property _parameters returned

schema_vars == <<parameters, schema>>

\* One message list given to the Gemini adapter (core/llm_api/api_adapters.py).
VARIABLES
    chat_messages,    \* the `messages` argument of chat_completion
    gemini_messages   \* what _convert_messages returned

convert_vars == <<chat_messages, gemini_messages>>

\* The variables of the two conversions above.
conversion_vars == <<schema_vars, convert_vars>>

\* The file <task_id>/message_history.json of the task (task.py:39-40, 94).
VARIABLES
    snapshot          \* the JSON array in the file, NoFile before the first write

\* What the steps of the task leave alone.
outside_task == <<loop_vars, roster_vars, swarm_vars, codec_vars, adapter_vars, conversion_vars>>

\* What the steps of the pump that do not write the file leave alone.
outside_pump == <<outside_task, snapshot>>

\* What the steps of agent.invoke leave alone, the pump's variables apart.
outside_loop == <<roster_vars, swarm_vars, codec_vars, adapter_vars, conversion_vars, snapshot>>

\* What the calls on the roster leave alone.
outside_roster == <<pump_vars, loop_vars, swarm_vars, codec_vars, adapter_vars, conversion_vars, snapshot>>

\* What the calls on the Swarm leave alone.
outside_swarm == <<pump_vars, loop_vars, codec_vars, adapter_vars, conversion_vars, snapshot>>

\* What to_dict and from_dict leave alone.
outside_codec == <<pump_vars, loop_vars, roster_vars, swarm_vars, adapter_vars, conversion_vars, snapshot>>

\* What a chat call of an adapter leaves alone.
outside_adapter == <<pump_vars, loop_vars, roster_vars, swarm_vars, codec_vars, conversion_vars, snapshot>>

\* What the projection of a tool's parameters leaves alone.
outside_schema == <<pump_vars, loop_vars, roster_vars, swarm_vars, codec_vars, adapter_vars, convert_vars, snapshot>>

\* What the conversion of a message list leaves alone.
outside_convert == <<pump_vars, loop_vars, roster_vars, swarm_vars, codec_vars, adapter_vars, schema_vars, snapshot>>

vars == <<pump_vars, loop_vars, roster_vars, swarm_vars, codec_vars, adapter_vars, conversion_vars, snapshot>>

\* ---------------------------------------------------------------- messages

\* AgentMessage.__init__ (agent_message.py:7-34): message_id is fresh.
AgentMessage(id, sender, receiver, content, task_id) ==
    [message_id |-> id, sender |-> sender, receiver |-> receiver,
     content |-> content, task_id |-> task_id]

NoMessage == AgentMessage(0, None, None, <<"none">>, None)

\* task.py:65-70
UserMessage(id) == AgentMessage(id, "user", "Eric", <<"input">>, TaskId)

\* task.py:109-114
NotFoundMessage(id, receiver) ==
    AgentMessage(id, "system", "Eric", <<"not found", receiver>>, TaskId)

\* Faulty variant of the error message: tagged "system" instead of carrying
\* the card name of the agent that raised.
ErrorMessage_System(id, name, receiver) ==
    AgentMessage(id, "system", "Eric", <<"error", receiver>>, TaskId)

\* task.py:137-142
ErrorMessage(id, name, receiver) ==
    AgentMessage(id, name, "Eric", <<"error", receiver>>, TaskId)

\* Faulty variant of the timeout message: the count includes the message that
\* still waits in the pool.
TimeoutMessage_CountsPending(id, history) ==
    AgentMessage(id, "system", "user", <<"timeout", Len(history) + 1>>, TaskId)

\* Faulty variant of the timeout message: addressed to the coordinator, as
\* the other messages the pump writes are.
TimeoutMessage_ToEric(id, history) ==
    AgentMessage(id, "system", "Eric", <<"timeout", Len(history)>>, TaskId)

\* task.py:152-157
TimeoutMessage(id, history) ==
    AgentMessage(id, "system", "user", <<"timeout", Len(history)>>, TaskId)

\* Coordinator.invoke (coordinator.py:38-45), Coder.invoke (coder.py:37-43):
\* the sender is the card name, the task id is copied from the inbound message.
ReplyMessage(id, name, receiver, inbound) ==
    AgentMessage(id, name, receiver, <<"reply">>, inbound.task_id)

\* Echoer.invoke (echoer.py:17-21): receiver "user", no task_id given.
EchoerMessage(id, name) ==
    AgentMessage(id, name, "user", <<"reply">>, None)

\* ------------------------------------------------------------------ agents

Range(s) == {s[i] : i \in DOMAIN s}

Injective(s) == \A i, j \in DOMAIN s : s[i] = s[j] => i = j

\* The registrations a Swarm can hold after register_agent calls.
Registrations ==
    {s \in UNION {[1 .. n -> AgentNames] : n \in 0 .. MaxAgents} : Injective(s)}

\* Task.get_agent (task.py:42-53)
get_agent(ags, name) ==
    IF name = None
    THEN IF "Eric" \in Range(ags) THEN "Eric"
         ELSE IF ags # <<>> THEN ags[1]
         ELSE None
    ELSE IF name \in Range(ags) THEN name ELSE None

\* An agent answers as a function of what it is sent: it has one answer to
\* the user's messages and one to the messages of agents and of the pump.
Kinds == {"user", "other"}

Kind(m) == IF m.sender = "user" THEN "user" ELSE "other"

\* What invoke of the agent registered as `name` can do.
CanDo(name) ==
    IF name = "Echo" THEN {"user", "raise"} ELSE Outcomes

\* The message agent `name` returns for outcome o.
Reply(id, name, o, inbound) ==
    IF name = "Echo" THEN EchoerMessage(id, name)
    ELSE ReplyMessage(id, name, o, inbound)

\* ------------------------------------------------- the agent's tool-call loop

\* AgentBase.max_function_calls (agent_base.py:32)
max_function_calls == 10

\* Tool calls in one completion that the model follows.
MaxCalls == 2

\* JSON values: an object or an array with its members as key/value pairs.
JsonObject(members) == [type |-> "object", members |-> members]

JsonArray(members) == [type |-> "array", members |-> members]

\* Python's {}
EmptyObject == JsonObject({})

\* Texts a completion can carry as the arguments of a tool call.
ObjectArguments == "{\"command\": \"ls\"}"

TruncatedArguments == "{\"command\": "

ArrayArguments == "[\"ls\"]"

\* Texts a completion can carry as its content.
RoutedContent == "{\"receiver\": \"user\", \"content\": \"done\"}"

UnroutedContent == "{\"content\": \"done\"}"

ProseContent == "done"

ArrayContent == "[]"

ContentTexts == {RoutedContent, UnroutedContent, ProseContent, ArrayContent}

\* The texts of the model that are JSON, with the values they stand for.
JsonTexts ==
    (ObjectArguments :> JsonObject({<<"command", "ls">>}))
        @@ (ArrayArguments :> JsonArray({<<"0", "ls">>}))
        @@ (RoutedContent :> JsonObject({<<"receiver", "user">>, <<"content", "done">>}))
        @@ (UnroutedContent :> JsonObject({<<"content", "done">>}))
        @@ (ArrayContent :> JsonArray({}))

\* json.loads: the value of the text, or JSONDecodeError (the empty string
\* and prose are not JSON).
json_loads(text) ==
    IF text \in DOMAIN JsonTexts
    THEN [raises |-> FALSE, value |-> JsonTexts[text]]
    ELSE [raises |-> TRUE, value |-> EmptyObject]

\* dict.get(key, default)
dict_get(object, key, default) ==
    IF \E kv \in object.members : kv[1] = key
    THEN (CHOOSE kv \in object.members : kv[1] = key)[2]
    ELSE default

\* The tools of the agent's ToolRegistry (registered in the agent's __init__,
\* coordinator.py:16): "shell" runs, the run of "broken" raises.
RegisteredTools == {"shell", "broken"}

\* ToolRegistry.get_tool (tool_registry.py:14-15): self.tools.get(name)
get_tool(name) == IF name \in RegisteredTools THEN name ELSE None

\* `await tool.run(**arguments)` raises: the tool's run raises, or the
\* arguments are not a mapping (TypeError of the ** call).
RunRaises(tool, arguments) == tool = "broken" \/ arguments.type # "object"

\* One entry of tool_calls in the adapters' format (api_adapters.py:120-129).
ToolCall(id, name, arguments) ==
    [id |-> id, function |-> [name |-> name, arguments |-> arguments]]

\* The tool calls the model can ask for: a tool by name, with arguments.
CallKinds ==
    {<<"shell", ObjectArguments>>, <<"shell", TruncatedArguments>>,
     <<"shell", ArrayArguments>>, <<"broken", ObjectArguments>>,
     <<"ghost", ObjectArguments>>}

CallLists == UNION {[1 .. n -> CallKinds] : n \in 1 .. MaxCalls}

\* The tool_calls of the n-th completion: the provider gives each call an id.
ToolCalls(kinds, n) ==
    [i \in DOMAIN kinds |-> ToolCall(<<n, i>>, kinds[i][1], kinds[i][2])]

\* The adapters' response format (api_adapters.py:107-130); tool_calls is
\* None or a list, <<>> standing for both falsy values.
Response(content, tool_calls) ==
    [role |-> "assistant", content |-> content, tool_calls |-> tool_calls]

NoResponse == Response("", <<>>)

\* The completions the provider can return to the n-th request.
Completions(kinds, n) ==
    {Response("", ToolCalls(kinds, n))} \cup {Response(t, <<>>) : t \in ContentTexts}

\* The loop variables while no agent.invoke is followed.
LoopIdle ==
    /\ lpc = "idle"
    /\ model_calls = <<>>
    /\ llm_messages = <<>>
    /\ working_messages = <<>>
    /\ response = NoResponse
    /\ iteration = 0
    /\ requests = 0
    /\ tool_results = <<>>
    /\ ran = <<>>
    /\ final_response = NoResponse
    /\ invoke_result = NoMessage

\* ------------------------------------------------------------- the roster

\* Card objects that the model follows.
MaxCards == 4

\* Entries of Roster.cards that the model follows.
MaxRoster == 4

\* An AgentCard object (agent_card.py:17-27): what tells two cards apart is
\* the object, id; name is the attribute read from the card's file.
Card(id, name) == [id |-> id, name |-> name]

\* The name of the k-th card object: two cards named "Eric", a card without
\* a name, cards named "Worker".
CardNameOf(k) ==
    CASE k \in {1, 2} -> "Eric"
      [] k = 3 -> ""
      [] OTHER -> "Worker"

CardObjects == {Card(k, CardNameOf(k)) : k \in 1 .. MaxCards}

\* Roster.__init__ (roster.py:10-11): the empty dict
EmptyMap == [n \in {} |-> Card(0, "")]

\* list.remove(x): the list without the first occurrence of x.
Remove(s, x) ==
    LET first == CHOOSE i \in DOMAIN s : s[i] = x /\ \A j \in 1 .. i - 1 : s[j] # x
    IN SubSeq(s, 1, first - 1) \o SubSeq(s, first + 1, Len(s))

\* Roster.register_card (roster.py:13-25)
register_card(roster, card) ==
    LET known == card.name # "" /\ card.name \in DOMAIN roster.agent_map
        kept == IF known /\ roster.agent_map[card.name] \in Range(roster.cards)
                THEN Remove(roster.cards, roster.agent_map[card.name])
                ELSE roster.cards
    IN [cards |-> Append(kept, card),
        agent_map |-> IF card.name # ""
                      THEN [n \in DOMAIN roster.agent_map \cup {card.name} |->
                               IF n = card.name THEN card ELSE roster.agent_map[n]]
                      ELSE roster.agent_map]

\* Roster.unregister_card (roster.py:27-34)
unregister_card(roster, card) ==
    [cards |-> IF card \in Range(roster.cards)
               THEN Remove(roster.cards, card)
               ELSE roster.cards,
     agent_map |-> IF card.name # "" /\ card.name \in DOMAIN roster.agent_map
                   THEN [n \in DOMAIN roster.agent_map \ {card.name} |-> roster.agent_map[n]]
                   ELSE roster.agent_map]

RECURSIVE Registered(_, _)
\* The roster after Swarm.register_agent (swarm.py:18-20) was called for
\* agents named ags[1..n], in that order, each with a card of its own.
Registered(ags, n) ==
    IF n = 0 THEN [cards |-> <<>>, agent_map |-> EmptyMap]
    ELSE register_card(Registered(ags, n - 1), Card(n, ags[n]))

\* The roster of a Swarm whose registered agents are ags.
RosterOf(ags) ==
    /\ cards = Registered(ags, Len(ags)).cards
    /\ agent_map = Registered(ags, Len(ags)).agent_map

\* The roster as the record that register_card and unregister_card take.
TheRoster == [cards |-> cards, agent_map |-> agent_map]

\* -------------------------------------------------------------- the swarm

\* Callers that make Swarm.invoke calls.
MaxCallers == 2

\* Task ids that the callers pass to Swarm.invoke.
MaxTasks == 2

\* Loop passes of one call that the model of the Swarm follows.
MaxHops == 2

\* register_agent and unregister_agent calls that the model follows.
MaxRegistryCalls == 4

Callers == 1 .. MaxCallers

TaskKeys == 1 .. MaxTasks

\* Agent objects; each has a card of its own, by which the model names it.
\* The agents are those whose card has a name.
AgentObjects == {card \in CardObjects : card.name # ""}

\* No agent: None where an agent is expected.
NoAgent == Card(0, "")

\* No task: the None of a new agent's task (agent_base.py:38-39).
NoTask == 0

\* The strings that are task keys or task ids: the keys the callers pass and
\* the values of str(uuid.uuid4()).
TaskUuids == 1 .. 2 * MaxTasks

\* Task.__init__ (task.py:24): self.task_id = str(uuid.uuid4()), a value that
\* is none of the keys passed to Swarm.invoke so far (the key of the call
\* that creates the task among them) and none of the ids of the tasks
\* created so far.  A caller may pass the id of a task as a key later on.
new_task_id(keys, ids) ==
    CHOOSE u \in TaskUuids :
        /\ u \notin keys \cup {ids[t] : t \in DOMAIN ids}
        /\ \A v \in TaskUuids :
              v \notin keys \cup {ids[t] : t \in DOMAIN ids} => u <= v

\* The messages of the tasks, by sender and receiver.
Letter(sender, receiver) == [sender |-> sender, receiver |-> receiver]

NoLetter == Letter(None, None)

\* The receivers an agent names in its replies.
LetterReceivers == {"user", "Eric", "Worker"}

\* The agents in the Swarm's agent map.
RegisteredAgents == {swarm_agents[n] : n \in DOMAIN swarm_agents}

\* Task.agents (task.py:26): the dict handed to Task.__init__ by Swarm.invoke
\* (swarm.py:30) is Swarm.agents itself, not a copy.
task_agents(t) == swarm_agents

\* Task.get_agent (task.py:52-53) for a name: self.agents.get(name)
task_get_agent(t, name) ==
    IF name \in DOMAIN task_agents(t) THEN task_agents(t)[name] ELSE NoAgent

\* Task.__init__ (task.py:30-34): every agent of the dict is bound to the
\* new task.
BoundTo(bound, ags, t) ==
    [a \in DOMAIN bound |-> IF a \in ags THEN t ELSE bound[a]]

\* The Swarm's variables while no call on the Swarm is followed.
\* The file has not been written.
NoFile == <<[none |-> TRUE]>>

SwarmIdle ==
    /\ swarm_agents = EmptyMap
    /\ swarm_tasks = {}
    /\ task_ids = [t \in TaskKeys |-> NoTask]
    /\ agent_task = [a \in AgentObjects |-> NoTask]
    /\ task_pool = [t \in TaskKeys |-> <<>>]
    /\ task_history = [t \in TaskKeys |-> <<>>]
    /\ call_pc = [c \in Callers |-> "idle"]
    /\ call_task = [c \in Callers |-> NoTask]
    /\ call_agent = [c \in Callers |-> NoAgent]
    /\ call_message = [c \in Callers |-> NoLetter]
    /\ call_iterations = [c \in Callers |-> 0]
    /\ call_passes = [c \in Callers |-> 0]
    /\ running = 0
    /\ registry_calls = 0

\* ------------------------------------------------------- message round trip
MaxIds == 2

MaxTimes == 2

\* Values of str(uuid4()) and of datetime.now().isoformat().
Uuids == 1 .. MaxIds

Times == 1 .. MaxTimes

\* None where a dict may stand.
Null == [type |-> "null", members |-> {}]

\* `value or {}`
OrEmptyDict(value) == IF value = Null \/ value = EmptyObject THEN EmptyObject ELSE value

\* AgentMessage.__init__ (agent_message.py:7-34); now and uuid are what
\* datetime.now() and uuid4() give at the call.
NewAgentMessage(content, sender, receiver, next_receiver, task_id, token_usage, metadata, now, uuid) ==
    [sender |-> sender, receiver |-> receiver, next_receiver |-> next_receiver,
     content |-> content, task_id |-> task_id, token_usage |-> token_usage,
     metadata |-> OrEmptyDict(metadata), timestamp |-> now, message_id |-> uuid]

\* AgentMessage.to_dict (agent_message.py:36-47)
to_dict(self) ==
    [message_id |-> self.message_id, sender |-> self.sender,
     receiver |-> self.receiver, next_receiver |-> self.next_receiver,
     content |-> self.content, task_id |-> self.task_id,
     metadata |-> self.metadata, timestamp |-> self.timestamp]

\* data.get(key, default) on a dict with text keys
get(d, key, default) == IF key \in DOMAIN d THEN d[key] ELSE default

\* AgentMessage.from_dict (agent_message.py:49-62): the constructor is called
\* with sender, receiver, content, task_id and metadata, then message_id and
\* timestamp are overwritten.
from_dict(d, now, uuid) ==
    [NewAgentMessage(d["content"], get(d, "sender", "user"), get(d, "receiver", ""),
                     None, get(d, "task_id", None), 0, get(d, "metadata", EmptyObject),
                     now, uuid)
        EXCEPT !.message_id = get(d, "message_id", uuid),
               !.timestamp = get(d, "timestamp", now)]

\* The messages that are taken through the round trip.
Messages ==
    {NewAgentMessage(content, sender, receiver, next_receiver, task_id, token_usage,
                     metadata, now, uuid) :
        content \in {"", "done"}, sender \in {None, "user", "Eric"},
        receiver \in {None, "Eric"}, next_receiver \in {None, "Worker"},
        task_id \in {None, TaskId}, token_usage \in {0, 7},
        metadata \in {Null, JsonObject({<<"source", "cli">>})},
        now \in Times, uuid \in Uuids}

NoData == [none |-> TRUE]

CodecIdle == original = NoData /\ data = NoData /\ restored = NoData

\* ------------------------------------------------------------- the adapters
MaxBackendCalls == 2

MaxParts == 2

\* create_api_adapter (api_adapters.py:430-445): the providers by adapter class.
OpenAICompatible == {"deepseek", "openai"}

Providers == OpenAICompatible \cup {"google", "siliconflow"}

\* A list where None may stand (None is Null).
List(items) == [type |-> "list", items |-> items]

\* bool(value) of a list or None
Truthy(value) == IF value = Null THEN FALSE ELSE value.items # <<>>

FinishReasons == {"stop", "tool_calls", "length"}

Usage == [prompt_tokens |-> 3, completion_tokens |-> 4, total_tokens |-> 7]

\* The i-th tool call of a provider's message.
BackendCall(i) ==
    [id |-> IF i = 1 THEN "call_1" ELSE "call_n", type |-> "function",
     function |-> [name |-> "shell", arguments |-> ObjectArguments]]

\* What message.tool_calls can be: None, or a list of up to MaxBackendCalls calls.
BackendCallLists ==
    {Null} \cup {List([i \in 1 .. n |-> BackendCall(i)]) : n \in 0 .. MaxBackendCalls}

\* ChatCompletion objects of the openai client: choices[0].message with an
\* optional content and optional tool_calls.
OpenAIResponses ==
    {[message |-> [content |-> content, tool_calls |-> calls],
      finish_reason |-> reason, usage |-> Usage] :
        content \in {None, "", ProseContent}, calls \in BackendCallLists,
        reason \in FinishReasons}

\* OpenAICompatibleAdapter._format_response (api_adapters.py:103-130)
OpenAI_format_response(raw) ==
    [role |-> "assistant",
     content |-> raw.message.content,
     tool_calls |-> IF Truthy(raw.message.tool_calls)
                    THEN List([i \in DOMAIN raw.message.tool_calls.items |->
                                 [id |-> raw.message.tool_calls.items[i].id,
                                  type |-> "function",
                                  function |->
                                     [name |-> raw.message.tool_calls.items[i].function.name,
                                      arguments |-> raw.message.tool_calls.items[i].function.arguments]]])
                    ELSE Null,
     finish_reason |-> raw.finish_reason,
     usage |-> raw.usage]

\* Parts of a Gemini candidate: every part has the attribute function_call,
\* which is empty (false) in a text part.
NoFunctionCall == [name |-> "", args |-> EmptyObject]

TextPart == [text |-> ProseContent, function_call |-> NoFunctionCall]

FunctionCallPart ==
    [text |-> "", function_call |-> [name |-> "shell", args |-> JsonObject({<<"command", "ls">>})]]

PartLists ==
    UNION {[1 .. n -> {TextPart, FunctionCallPart}] : n \in 0 .. MaxParts}

\* GenerateContentResponse objects: the parts of candidates[0], and whether
\* response.text raises ValueError: it does when there is no part, it does
\* not when every part is text, and with a function call among the parts it
\* depends on the client library.
GeminiResponses ==
    {[parts |-> parts, text_raises |-> raises, finish_reason |-> reason, usage |-> Usage] :
        parts \in PartLists, raises \in BOOLEAN, reason \in {"STOP", "SAFETY"}}
    \ {r \in [parts : PartLists, text_raises : BOOLEAN,
              finish_reason : {"STOP", "SAFETY"}, usage : {Usage}] :
          \/ r.parts = <<>> /\ ~r.text_raises
          \/ (\A i \in DOMAIN r.parts : r.parts[i] = TextPart) /\ r.parts # <<>> /\ r.text_raises}

\* json.dumps of the arguments of a function call
json_dumps(value) ==
    IF value = EmptyObject THEN "{}"
    ELSE CHOOSE text \in DOMAIN JsonTexts : JsonTexts[text] = value

\* bool(function_call)
IsFunctionCall(fc) == fc # NoFunctionCall

\* GoogleGeminiAdapter._format_response (api_adapters.py:296-341): with a
\* function call in the first part every part gives a tool call; otherwise
\* the content is response.text, or None when that raises ValueError.
Gemini_format_response(raw) ==
    [role |-> "assistant",
     content |-> IF raw.parts # <<>> /\ IsFunctionCall(raw.parts[1].function_call)
                 THEN None
                 ELSE IF raw.text_raises THEN None ELSE ProseContent,
     tool_calls |-> IF raw.parts # <<>> /\ IsFunctionCall(raw.parts[1].function_call)
                    THEN List([i \in DOMAIN raw.parts |->
                                 [id |-> "call_" \o raw.parts[i].function_call.name
                                             \o "_" \o json_dumps(raw.parts[i].function_call.args),
                                  type |-> "function",
                                  function |->
                                     [name |-> raw.parts[i].function_call.name,
                                      arguments |-> json_dumps(raw.parts[i].function_call.args)]]])
                    ELSE Null,
     finish_reason |-> raw.finish_reason,
     usage |-> raw.usage]

\* The message of a SiliconFlow answer: a JSON object in which "content" and
\* "tool_calls" may be missing or null.
SiliconflowMessages ==
    {[content |-> content, tool_calls |-> calls] :
        content \in {None, "", ProseContent}, calls \in BackendCallLists}
    \cup {[content |-> content] : content \in {None, "", ProseContent}}
    \cup {[role |-> "assistant"]}

\* The JSON of a SiliconFlow answer, "choices" missing included.
SiliconflowResponses ==
    {[choices |-> <<[message |-> m, finish_reason |-> reason]>>, usage |-> Usage] :
        m \in SiliconflowMessages, reason \in FinishReasons}
    \cup {[usage |-> Usage]}

\* SiliconflowAdapter._format_response (api_adapters.py:410-428)
Siliconflow_format_response(raw) ==
    LET choice == get(raw, "choices", <<[none |-> TRUE]>>)[1]
        choice_message == get(choice, "message", [none |-> TRUE])
    IN  [role |-> "assistant",
         content |-> get(choice_message, "content", None),
         tool_calls |-> get(choice_message, "tool_calls", Null),
         finish_reason |-> get(choice, "finish_reason", None),
         usage |-> get(raw, "usage", [none |-> TRUE])]

\* The answers a provider can give to the adapter created for it.
Responses(p) ==
    IF p \in OpenAICompatible THEN OpenAIResponses
    ELSE IF p = "google" THEN GeminiResponses
    ELSE SiliconflowResponses

AdapterIdle == provider = None /\ backend = NoData /\ completion = NoData

\* ------------------------------------------------------ the schema of a tool
MaxParameters == 2

\* The classes a tool declares as parameter types, and NoneType.
NoneType == "NoneType"

PlainTypes == {"int", "float", "bool", "list", "dict", "tuple", "str", "List[str]"}

\* A declared type: a class or a subscripted generic (one argument, no
\* Union origin), or typing.Union[...] with its arguments in order.
Plain(t) == [origin_is_union |-> FALSE, args |-> <<t>>]

UnionOf(args) == [origin_is_union |-> TRUE, args |-> args]

\* typing.Optional[t] is Union[t, None].
OptionalOf(t) == UnionOf(<<t, NoneType>>)

PyTypes ==
    {Plain(t) : t \in PlainTypes} \cup {OptionalOf(t) : t \in PlainTypes}
        \cup {UnionOf(<<NoneType, "int">>), UnionOf(<<"int", "str">>)}

\* `type(None) in py_type.__args__`
HasNone(py_type) == \E i \in DOMAIN py_type.args : py_type.args[i] = NoneType

\* [t for t in py_type.__args__ if t is not type(None)]
NonNoneTypes(py_type) == SelectSeq(py_type.args, LAMBDA t : t # NoneType)

\* type_map of _map_python_type (tool_base.py:54-68), the Optional keys
\* apart, which the Union branch answers before the lookup.
type_map ==
    ("int" :> "integer") @@ ("float" :> "number") @@ ("bool" :> "boolean")
        @@ ("list" :> "array") @@ ("dict" :> "object") @@ ("tuple" :> "array")
        @@ ("str" :> "string")

\* type_map.get(py_type, "string") for a type that is not Optional
type_map_get(py_type) ==
    IF ~py_type.origin_is_union /\ py_type.args[1] \in DOMAIN type_map
    THEN type_map[py_type.args[1]]
    ELSE "string"

\* ToolBase._map_python_type (tool_base.py:52-79): for a Union with None the
\* first argument that is not None is mapped (it is no Union itself).
map_python_type(py_type) ==
    IF py_type.origin_is_union /\ HasNone(py_type) /\ NonNoneTypes(py_type) # <<>>
    THEN type_map_get(Plain(NonNoneTypes(py_type)[1]))
    ELSE type_map_get(py_type)

\* ToolBase._is_optional_type (tool_base.py:81-85)
is_optional_type(py_type) == py_type.origin_is_union /\ HasNone(py_type)

\* required_params of _parameters (tool_base.py:26, 39-44): the names of the
\* entries whose type is not optional, in the order of the entries.
RECURSIVE RequiredOf(_)
RequiredOf(s) ==
    IF s = <<>> THEN <<>>
    ELSE IF is_optional_type(Head(s).type)
         THEN RequiredOf(Tail(s))
         ELSE <<Head(s).name>> \o RequiredOf(Tail(s))

\* The property ToolBase._parameters (tool_base.py:23-50); the properties
\* dict is kept as the list of its items, in insertion order.
ProjectedParameters(params) ==
    [type |-> "object",
     properties |-> [i \in DOMAIN params |->
                       [name |-> params[i].name,
                        type |-> map_python_type(params[i].type),
                        description |-> params[i].description]],
     required |-> RequiredOf(params)]

ParameterNames == {"command", "timeout", "file_types"}

\* The parameters a tool can declare: up to MaxParameters names, each once.
ParameterLists ==
    {s \in UNION {[1 .. n -> [name : ParameterNames, type : PyTypes, description : {"text"}]] :
                     n \in 0 .. MaxParameters} :
        \A i, j \in DOMAIN s : i # j => s[i].name # s[j].name}

SchemaIdle == parameters = <<>> /\ schema = NoData

\* ------------------------------------------------- the conversion for Gemini
MaxTurns == 3

\* A text is the list of its pieces; the text of the i-th message of a list
\* is the piece i, or empty.  Separator is "\n\n".
Separator == 0

Roles == {"system", "user", "assistant", "tool"}

ChatMessage(role, content) == [role |-> role, content |-> content]

\* The message lists that are converted: up to MaxTurns messages.
ChatMessageLists ==
    {s \in UNION {[1 .. n -> [role : Roles, content : {<<>>} \cup {<<i>> : i \in 1 .. MaxTurns}]] :
                     n \in 0 .. MaxTurns} :
        \A i \in DOMAIN s : s[i].content \in {<<>>, <<i>>}}

\* One entry of the converted list: {"role": role, "parts": [{"text": text}]}
GeminiMessage(role, text) == [role |-> role, parts |-> <<[text |-> text]>>]

\* The loop of GoogleGeminiAdapter._convert_messages (api_adapters.py:267-294)
\* from the i-th message on, with the list built so far and the pending
\* system prompt; None and the empty text are the same to the two tests of
\* system_prompt and both are the empty text here.
RECURSIVE ConvertFrom(_, _, _, _)
ConvertFrom(msgs, i, out, system_prompt) ==
    IF i > Len(msgs)
    THEN IF system_prompt # <<>>
         THEN Append(out, GeminiMessage("user", system_prompt))
         ELSE out
    ELSE IF msgs[i].role = "system"
    THEN ConvertFrom(msgs, i + 1, out, msgs[i].content)
    ELSE LET gemini_role == IF msgs[i].role = "assistant" THEN "model" ELSE "user"
         IN  IF system_prompt # <<>> /\ gemini_role = "user" /\ out = <<>>
             THEN ConvertFrom(msgs, i + 1,
                              Append(out, GeminiMessage(gemini_role,
                                             system_prompt \o <<Separator>> \o msgs[i].content)),
                              <<>>)
             ELSE ConvertFrom(msgs, i + 1,
                              Append(out, GeminiMessage(gemini_role, msgs[i].content)),
                              system_prompt)

\* GoogleGeminiAdapter._convert_messages (api_adapters.py:267-294)
convert_messages(msgs) == ConvertFrom(msgs, 1, <<>>, <<>>)

\* What gemini_messages holds before the conversion: no list of entries.
NotConverted == <<NoData>>

ConvertIdle == chat_messages = <<>> /\ gemini_messages = NotConverted

\* ----------------------------------------------------------------- initial

Init ==
    /\ agents \in Registrations
    /\ message_pool = <<>>
    /\ message_history = <<>>
    /\ pc = [c \in Calls |-> "idle"]
    /\ iterations = [c \in Calls |-> 0]
    /\ message = [c \in Calls |-> NoMessage]
    /\ agent = [c \in Calls |-> None]
    /\ result = [c \in Calls |-> NoMessage]
    /\ last = [c \in Calls |-> "none"]
    /\ passes = [c \in Calls |-> 0]
    /\ plan = [a \in AgentNames |-> [k \in Kinds |-> "unset"]]
    /\ next_id = 0
    /\ enqueued = <<>>
    /\ LoopIdle
    /\ RosterOf(agents)
    /\ SwarmIdle
    /\ snapshot = NoFile
    /\ SchemaIdle
    /\ ConvertIdle
    /\ CodecIdle
    /\ AdapterIdle

\* ----------------------------------------------------------------- the pump

\* Faulty variant of the `while` test: the bound written with <=.
LoopCond_Le(i) == i <= MAX_ITERATIONS

\* The `while` test (task.py:84)
LoopCond(i) == i < MAX_ITERATIONS

\* Faulty variant of Task.invoke: the call starts on a new pool and a new
\* history.
Invoke_Resets(c) ==
    /\ pc[c] = "idle"
    /\ \A d \in Calls : d < c => pc[d] = "done"
    /\ message_pool' = <<UserMessage(next_id + 1)>>
    /\ message_history' = <<>>
    /\ enqueued' = <<UserMessage(next_id + 1)>>
    /\ next_id' = next_id + 1
    /\ pc' = [pc EXCEPT ![c] = "loop"]
    /\ iterations' = [iterations EXCEPT ![c] = 0]
    /\ UNCHANGED <<outside_pump, agents, message, agent, result, last, passes, plan>>

\* Task.invoke (task.py:55-75): build the user message, append it to the
\* pool, enter _process_messages with iterations = 0.  Calls are made one
\* after the other, call c + 1 after call c has returned.
Invoke(c) ==
    /\ pc[c] = "idle"
    /\ \A d \in Calls : d < c => pc[d] = "done"
    /\ message_pool' = Append(message_pool, UserMessage(next_id + 1))
    /\ enqueued' = Append(enqueued, UserMessage(next_id + 1))
    /\ next_id' = next_id + 1
    /\ pc' = [pc EXCEPT ![c] = "loop"]
    /\ iterations' = [iterations EXCEPT ![c] = 0]
    /\ UNCHANGED <<outside_pump, agents, message_history, message, agent, result, last, passes, plan>>

\* Faulty variant of the dequeue: pop() without the index takes the newest.
Pop_Newest(pool) ==
    [message |-> pool[Len(pool)], rest |-> SubSeq(pool, 1, Len(pool) - 1)]

\* Faulty variant of the history update: the append is left out.
HistoryAfter_Skipped(history, m) == history

\* Faulty variant of the history update: the history is assigned, not extended.
HistoryAfter_Assigned(history, m) == <<m>>

\* Faulty variant of the dequeue: the oldest message is read and left in the pool.
Pop_Peek(pool) == [message |-> Head(pool), rest |-> pool]

\* task.py:92: message_pool.pop(0) takes the oldest message of the pool.
Pop(pool) == [message |-> Head(pool), rest |-> Tail(pool)]

PoolAfterPop(pool) == Pop(pool).rest

Popped(pool) == Pop(pool).message

\* task.py:93: message_history.append(message)
HistoryAfter(history, m) == Append(history, m)

\* The map of a message that the file holds: the keys of to_dict
\* (agent_message.py:36-47) for the fields of the messages of the pump,
\* which carry no next_receiver.
MessageMap(m) ==
    [message_id |-> m.message_id, sender |-> m.sender, receiver |-> m.receiver,
     next_receiver |-> None, content |-> m.content, task_id |-> m.task_id]

\* task.py:94 when the statement completes: the file is rewritten with the
\* array of the maps of the whole history.
SnapshotOf(history) == [i \in DOMAIN history |-> MessageMap(history[i])]

\* The guard shared by the passes that dequeue (task.py:84-92).
CanDequeue(c) ==
    /\ pc[c] = "loop"
    /\ LoopCond(iterations[c])
    /\ message_pool # <<>>
    /\ passes[c] < MaxPasses

\* Faulty variant of the empty tick: the tick is not counted.
EmptyTick_Uncounted(c) ==
    /\ pc[c] = "loop"
    /\ LoopCond(iterations[c])
    /\ message_pool = <<>>
    /\ passes[c] < MaxPasses
    /\ passes' = [passes EXCEPT ![c] = @ + 1]
    /\ last' = [last EXCEPT ![c] = "tick"]
    /\ UNCHANGED <<outside_pump, agents, message_pool, message_history, pc, iterations,
                   message, agent, result, plan, next_id, enqueued>>

\* task.py:86-89: the pool is empty: sleep, count the tick, next pass.
EmptyTick(c) ==
    /\ pc[c] = "loop"
    /\ LoopCond(iterations[c])
    /\ message_pool = <<>>
    /\ passes[c] < MaxPasses
    /\ iterations' = [iterations EXCEPT ![c] = @ + 1]
    /\ passes' = [passes EXCEPT ![c] = @ + 1]
    /\ last' = [last EXCEPT ![c] = "tick"]
    /\ UNCHANGED <<outside_pump, agents, message_pool, message_history, pc, message, agent,
                   result, plan, next_id, enqueued>>

\* task.py:92-94 when the snapshot raises: message.model_dump() is not a
\* method of AgentMessage and write_text is file I/O; the statement stands
\* outside the try block, so the exception leaves _process_messages.
SnapshotRaises(c) ==
    /\ CanDequeue(c)
    /\ message_pool' = PoolAfterPop(message_pool)
    /\ message_history' = HistoryAfter(message_history, Popped(message_pool))
    /\ message' = [message EXCEPT ![c] = Popped(message_pool)]
    /\ passes' = [passes EXCEPT ![c] = @ + 1]
    /\ last' = [last EXCEPT ![c] = "snapshot raised"]
    /\ pc' = [pc EXCEPT ![c] = "raised"]
    /\ UNCHANGED <<outside_pump, agents, iterations, agent, result, plan, next_id, enqueued>>

\* task.py:92-103: the dequeued message is addressed to the user: return it.
ReturnToUser(c) ==
    /\ CanDequeue(c)
    /\ Popped(message_pool).receiver = "user"
    /\ message_pool' = PoolAfterPop(message_pool)
    /\ message_history' = HistoryAfter(message_history, Popped(message_pool))
    /\ message' = [message EXCEPT ![c] = Popped(message_pool)]
    /\ passes' = [passes EXCEPT ![c] = @ + 1]
    /\ last' = [last EXCEPT ![c] = "user"]
    /\ result' = [result EXCEPT ![c] = Popped(message_pool)]
    /\ pc' = [pc EXCEPT ![c] = "done"]
    /\ snapshot' = SnapshotOf(HistoryAfter(message_history, Popped(message_pool)))
    /\ UNCHANGED <<outside_task, agents, iterations, agent, plan, next_id, enqueued>>

\* Faulty variant of the not-found pass: `break` in the place of `continue`,
\* so that the call returns the message built after the loop.
AgentNotFound_Breaks(c) ==
    /\ CanDequeue(c)
    /\ Popped(message_pool).receiver # "user"
    /\ get_agent(agents, Popped(message_pool).receiver) = None
    /\ message_pool' = PoolAfterPop(message_pool)
    /\ message_history' = HistoryAfter(message_history, Popped(message_pool))
    /\ message' = [message EXCEPT ![c] = Popped(message_pool)]
    /\ result' = [result EXCEPT ![c] =
                     TimeoutMessage(next_id + 1, HistoryAfter(message_history, Popped(message_pool)))]
    /\ next_id' = next_id + 1
    /\ passes' = [passes EXCEPT ![c] = @ + 1]
    /\ last' = [last EXCEPT ![c] = "not found"]
    /\ pc' = [pc EXCEPT ![c] = "done"]
    /\ snapshot' = SnapshotOf(HistoryAfter(message_history, Popped(message_pool)))
    /\ UNCHANGED <<outside_task, agents, iterations, agent, plan, enqueued>>

\* task.py:92-116: no agent for the receiver: enqueue the system message and
\* `continue` (the counter is not incremented on this path).
AgentNotFound(c) ==
    /\ CanDequeue(c)
    /\ Popped(message_pool).receiver # "user"
    /\ get_agent(agents, Popped(message_pool).receiver) = None
    /\ LET m == Popped(message_pool)
           s == NotFoundMessage(next_id + 1, m.receiver)
       IN /\ message_pool' = Append(PoolAfterPop(message_pool), s)
          /\ message_history' = HistoryAfter(message_history, m)
          /\ message' = [message EXCEPT ![c] = s]
          /\ enqueued' = Append(enqueued, s)
    /\ next_id' = next_id + 1
    /\ passes' = [passes EXCEPT ![c] = @ + 1]
    /\ last' = [last EXCEPT ![c] = "not found"]
    /\ snapshot' = SnapshotOf(HistoryAfter(message_history, Popped(message_pool)))
    /\ UNCHANGED <<outside_task, agents, pc, iterations, agent, result, plan>>

\* task.py:92-120: the receiver is registered: call agent.invoke and await it.
Dispatch(c) ==
    /\ CanDequeue(c)
    /\ Popped(message_pool).receiver # "user"
    /\ get_agent(agents, Popped(message_pool).receiver) # None
    /\ message_pool' = PoolAfterPop(message_pool)
    /\ message_history' = HistoryAfter(message_history, Popped(message_pool))
    /\ message' = [message EXCEPT ![c] = Popped(message_pool)]
    /\ agent' = [agent EXCEPT ![c] = get_agent(agents, Popped(message_pool).receiver)]
    /\ passes' = [passes EXCEPT ![c] = @ + 1]
    /\ last' = [last EXCEPT ![c] = "dispatch"]
    /\ pc' = [pc EXCEPT ![c] = "await"]
    /\ snapshot' = SnapshotOf(HistoryAfter(message_history, Popped(message_pool)))
    /\ UNCHANGED <<outside_task, agents, iterations, result, plan, next_id, enqueued>>

\* The outcome of agent.invoke for call c is o: the agent's answer to this
\* kind of message, fixed when it is first given.
Answers(c, o) ==
    /\ pc[c] = "await"
    /\ o \in CanDo(agent[c])
    /\ plan[agent[c]][Kind(message[c])] \in {"unset", o}
    /\ plan' = [plan EXCEPT ![agent[c]][Kind(message[c])] = o]

\* task.py:120-126, 145: the agent returned a message: enqueue it, count.
AgentReplies(c) ==
    \E o \in Receivers :
        /\ Answers(c, o)
        /\ LET r == Reply(next_id + 1, agent[c], o, message[c])
           IN /\ message_pool' = Append(message_pool, r)
              /\ enqueued' = Append(enqueued, r)
        /\ next_id' = next_id + 1
        /\ iterations' = [iterations EXCEPT ![c] = @ + 1]
        /\ last' = [last EXCEPT ![c] = "reply"]
        /\ pc' = [pc EXCEPT ![c] = "loop"]
        /\ UNCHANGED <<outside_pump, agents, message_history, message, agent, result, passes>>

\* task.py:127-131, 147-157: the agent returned None: break, and return the
\* message built after the loop.
AgentReturnsNone(c) ==
    /\ Answers(c, "null")
    /\ result' = [result EXCEPT ![c] = TimeoutMessage(next_id + 1, message_history)]
    /\ next_id' = next_id + 1
    /\ last' = [last EXCEPT ![c] = "null"]
    /\ pc' = [pc EXCEPT ![c] = "done"]
    /\ UNCHANGED <<outside_pump, agents, message_pool, message_history, iterations, message,
                   agent, passes, enqueued>>

\* task.py:133-145: agent.invoke raised: enqueue the error message, count.
AgentRaises(c) ==
    /\ Answers(c, "raise")
    /\ LET e == ErrorMessage(next_id + 1, agent[c], message[c].receiver)
       IN /\ message_pool' = Append(message_pool, e)
          /\ enqueued' = Append(enqueued, e)
          /\ message' = [message EXCEPT ![c] = e]
    /\ next_id' = next_id + 1
    /\ iterations' = [iterations EXCEPT ![c] = @ + 1]
    /\ last' = [last EXCEPT ![c] = "raise"]
    /\ pc' = [pc EXCEPT ![c] = "loop"]
    /\ UNCHANGED <<outside_pump, agents, message_history, agent, result, passes>>

\* task.py:84, 147-157: the `while` test fails: return the timeout message.
Timeout(c) ==
    /\ pc[c] = "loop"
    /\ ~LoopCond(iterations[c])
    /\ result' = [result EXCEPT ![c] = TimeoutMessage(next_id + 1, message_history)]
    /\ next_id' = next_id + 1
    /\ last' = [last EXCEPT ![c] = "timeout"]
    /\ pc' = [pc EXCEPT ![c] = "done"]
    /\ UNCHANGED <<outside_pump, agents, message_pool, message_history, iterations, message,
                   agent, passes, plan, enqueued>>

\* Callers that make their Task.invoke calls one after the other.  With such
\* callers the pool is never empty at the top of the loop, so EmptyTick is
\* not among the steps.
Next ==
    \E c \in Calls :
        \/ Invoke(c)
        \/ ReturnToUser(c)
        \/ AgentNotFound(c)
        \/ Dispatch(c)
        \/ SnapshotRaises(c)
        \/ AgentReplies(c)
        \/ AgentReturnsNone(c)
        \/ AgentRaises(c)
        \/ Timeout(c)

Spec == Init /\ [][Next]_vars

\* Task._process_messages (task.py:77-82) entered with nothing appended to
\* the pool: iterations = 0, then the loop.  Calls are made one after the
\* other.
ProcessMessages(c) ==
    /\ pc[c] = "idle"
    /\ \A d \in Calls : d < c => pc[d] = "done"
    /\ pc' = [pc EXCEPT ![c] = "loop"]
    /\ iterations' = [iterations EXCEPT ![c] = 0]
    /\ UNCHANGED <<outside_pump, agents, message_pool, message_history, message, agent,
                   result, last, passes, plan, next_id, enqueued>>

\* The pump on a pool that stays empty: nothing is appended, so the passes
\* are empty ticks until the `while` test fails.
NextTick ==
    \E c \in Calls :
        \/ ProcessMessages(c)
        \/ EmptyTick(c)
        \/ Timeout(c)

\* asyncio.sleep(0.1) returns and the event loop resumes the coroutine:
\* a pump that can make a pass or return does so.
SpecTick ==
    /\ Init
    /\ [][NextTick]_vars
    /\ \A c \in Calls : WF_vars(EmptyTick(c)) /\ WF_vars(Timeout(c))

\* ------------------------------------------------------------ agent.invoke
\* One agent.invoke call in detail: the call that the pump awaits after it
\* dispatched the user's message to "Eric".

\* Coordinator._build_llm_messages (coordinator.py:18-27): the system prompt
\* and the user prompt.
build_llm_messages(inbound) ==
    <<[role |-> "system", content |-> "system prompt"],
      [role |-> "user", content |-> "user prompt"]>>

\* Faulty variant of the caller's list: working_messages bound to the list
\* itself, so that what the loop appends is appended to the caller's list.
CallerList_Aliased(messages, appended) == messages \o appended

\* agent_base.py:208: working_messages is a copy; the appends of lines 218-225
\* do not reach the caller's list.
CallerList(messages, appended) == messages

\* AgentBase._parse_tool_arguments (agent_base.py:275-283)
parse_tool_arguments(call) ==
    LET parsed == json_loads(call.function.arguments)
    IN IF parsed.raises THEN EmptyObject ELSE parsed.value

\* One entry of the list _execute_tool_calls returns.
ToolResult(tool_name, arguments, status, content) ==
    [tool_name |-> tool_name, arguments |-> arguments, status |-> status,
     content |-> content]

\* The body of the `for` of _execute_tool_calls for one call
\* (agent_base.py:244-271).
ExecuteCall(call) ==
    LET tool_name == call.function.name
        arguments == parse_tool_arguments(call)
        tool == get_tool(tool_name)
    IN IF tool = None
       THEN ToolResult(tool_name, arguments, "error", <<"tool not found", tool_name>>)
       ELSE IF RunRaises(tool, arguments)
       THEN ToolResult(tool_name, arguments, "error", <<"run error", tool_name>>)
       ELSE ToolResult(tool_name, arguments, "success", <<"output", tool_name>>)

\* The ids of the calls of tool_calls[1..n] for which tool.run is called.
RECURSIVE RunOf(_, _)
RunOf(tool_calls, n) ==
    IF n = 0 THEN <<>>
    ELSE IF get_tool(tool_calls[n].function.name) # None
         THEN Append(RunOf(tool_calls, n - 1), tool_calls[n].id)
         ELSE RunOf(tool_calls, n - 1)

\* The calls up to the first one whose result is an error, that one included.
UpToFailure(tool_calls) ==
    LET failing == {i \in DOMAIN tool_calls : ExecuteCall(tool_calls[i]).status = "error"}
    IN IF failing = {} THEN Len(tool_calls)
       ELSE CHOOSE i \in failing : \A j \in failing : i <= j

\* Faulty variant of _execute_tool_calls: the first failure ends the round.
execute_tool_calls_StopsAtFailure(tool_calls) ==
    [results |-> [i \in 1 .. UpToFailure(tool_calls) |-> ExecuteCall(tool_calls[i])],
     ran |-> RunOf(tool_calls, UpToFailure(tool_calls))]

\* AgentBase._execute_tool_calls (agent_base.py:237-273): the results, one per
\* call and in the order of the calls, and the runs made.
execute_tool_calls(tool_calls) ==
    [results |-> [i \in DOMAIN tool_calls |-> ExecuteCall(tool_calls[i])],
     ran |-> RunOf(tool_calls, Len(tool_calls))]

\* A tool-role message (agent_base.py:297-307).
ToolMessage(call, res) ==
    [role |-> "tool", tool_call_id |-> call.id,
     content |-> <<res.tool_name, res.arguments, res.status, res.content>>]

Min(a, b) == IF a <= b THEN a ELSE b

\* Faulty variant of _build_tool_response_messages: the ids are taken from
\* the calls in reverse order.
build_tool_response_messages_Reversed(results, original_response) ==
    LET calls == original_response.tool_calls
        n == Min(Len(calls), Len(results))
    IN [i \in 1 .. n |-> ToolMessage(calls[n + 1 - i], results[i])]

\* AgentBase._build_tool_response_messages (agent_base.py:285-309): zip pairs
\* the calls with the results up to the shorter of the two.
build_tool_response_messages(results, original_response) ==
    LET calls == original_response.tool_calls
    IN [i \in 1 .. Min(Len(calls), Len(results)) |-> ToolMessage(calls[i], results[i])]

\* The assistant message of a round (agent_base.py:218-222).
AssistantMessage(resp) ==
    [role |-> "assistant", content |-> resp.content, tool_calls |-> resp.tool_calls]

\* Faulty variant of the `while` test: the bound written with <.
WhileCond_Lt(i, resp) == i < max_function_calls /\ resp.tool_calls # <<>>

\* The `while` test of the loop (agent_base.py:211)
WhileCond(i, resp) == i <= max_function_calls /\ resp.tool_calls # <<>>

\* agent_base.py:230-234: the error-wrapped return value.
ErrorWrapped(resp) == [error |-> "tool-call limit", last_response |-> resp]

\* Faulty variant of the return: the counter alone decides, and at the cap
\* the response is wrapped whatever it carries.
LoopResult_WrapsAtCap(i, resp) ==
    IF i >= max_function_calls THEN ErrorWrapped(resp) ELSE resp

\* agent_base.py:230-235: what the loop returns.
LoopResult(i, resp) ==
    IF i > max_function_calls /\ resp.tool_calls # <<>>
    THEN ErrorWrapped(resp)
    ELSE resp

\* coordinator.py:34: final_response.get("content", "")
FinalContent(final) ==
    IF "content" \in DOMAIN final THEN final.content ELSE ""

\* coordinator.py:34-35 raise: json.loads raises on a text that is not JSON,
\* and .get is not an attribute of a value that is not an object.
ParseRaises(final) ==
    \/ json_loads(FinalContent(final)).raises
    \/ json_loads(FinalContent(final)).value.type # "object"

\* coordinator.py:30-31: build the prompt messages and send the first
\* completion request.
InvokeAgent ==
    /\ lpc = "invoke"
    /\ llm_messages' = build_llm_messages(message[1])
    /\ requests' = 1
    /\ lpc' = "chat"
    /\ UNCHANGED <<outside_loop, pump_vars, model_calls, working_messages, response, iteration,
                   tool_results, ran, final_response, invoke_result>>

\* AgentBase.chat (agent_base.py:141-157) returns the provider's completion,
\* to Coordinator.invoke (coordinator.py:31) or to the loop (agent_base.py:228).
ChatReturns ==
    /\ lpc \in {"chat", "chat in loop"}
    /\ response' \in Completions(model_calls, requests)
    /\ lpc' = IF lpc = "chat" THEN "enter" ELSE "while"
    /\ UNCHANGED <<outside_loop, pump_vars, model_calls, llm_messages, working_messages, iteration,
                   requests, tool_results, ran, final_response, invoke_result>>

\* AgentBase.chat raises (no adapter, APIError of the adapter): the exception
\* leaves invoke.
ChatRaises ==
    /\ lpc \in {"chat", "chat in loop"}
    /\ lpc' = "raised"
    /\ UNCHANGED <<outside_loop, pump_vars, model_calls, llm_messages, working_messages, response,
                   iteration, requests, tool_results, ran, final_response, invoke_result>>

\* agent_base.py:208-209: enter _execute_tool_calls_loop.
EnterLoop ==
    /\ lpc = "enter"
    /\ working_messages' = llm_messages
    /\ iteration' = 0
    /\ lpc' = "while"
    /\ UNCHANGED <<outside_loop, pump_vars, model_calls, llm_messages, response, requests,
                   tool_results, ran, final_response, invoke_result>>

\* agent_base.py:211-228: one round of the loop: execute the calls, append
\* the assistant message and the tool messages, count, request a completion.
ToolRound ==
    /\ lpc = "while"
    /\ WhileCond(iteration, response)
    /\ LET executed == execute_tool_calls(response.tool_calls)
           tool_messages == build_tool_response_messages(executed.results, response)
           appended == <<AssistantMessage(response)>> \o tool_messages
       IN /\ tool_results' = executed.results
          /\ ran' = ran \o executed.ran
          /\ working_messages' = working_messages \o appended
          /\ llm_messages' = CallerList(llm_messages, appended)
    /\ iteration' = iteration + 1
    /\ requests' = requests + 1
    /\ lpc' = "chat in loop"
    /\ UNCHANGED <<outside_loop, pump_vars, model_calls, response, final_response, invoke_result>>

\* agent_base.py:211, 230-235: the `while` test fails: return.
LoopReturns ==
    /\ lpc = "while"
    /\ ~WhileCond(iteration, response)
    /\ final_response' = LoopResult(iteration, response)
    /\ lpc' = "returned"
    /\ UNCHANGED <<outside_loop, pump_vars, model_calls, llm_messages, working_messages, response,
                   iteration, requests, tool_results, ran, invoke_result>>

\* coordinator.py:34-47: the final content parses: invoke returns a message
\* for the receiver the content names, None when it names none.
InvokeReturns ==
    /\ lpc = "returned"
    /\ ~ParseRaises(final_response)
    /\ LET json_content == json_loads(FinalContent(final_response)).value
           receiver == dict_get(json_content, "receiver", None)
       IN invoke_result' = ReplyMessage(next_id + 1, agent[1], receiver, message[1])
    /\ next_id' = next_id + 1
    /\ lpc' = "replied"
    /\ UNCHANGED <<agents, message_pool, message_history, pc, iterations, message,
                   agent, result, last, passes, plan, enqueued>>
    /\ UNCHANGED <<outside_loop, model_calls, llm_messages, working_messages, response, iteration,
                   requests, tool_results, ran, final_response>>

\* coordinator.py:34-35: parsing the final content raises: the exception
\* leaves invoke.
InvokeRaises ==
    /\ lpc = "returned"
    /\ ParseRaises(final_response)
    /\ lpc' = "raised"
    /\ UNCHANGED <<outside_loop, pump_vars, model_calls, llm_messages, working_messages, response,
                   iteration, requests, tool_results, ran, final_response, invoke_result>>

\* task.py:120-126, 145: the pump enqueues the message invoke returned.
ReplyHandled ==
    /\ lpc = "replied"
    /\ pc[1] = "await"
    /\ message_pool' = Append(message_pool, invoke_result)
    /\ enqueued' = Append(enqueued, invoke_result)
    /\ iterations' = [iterations EXCEPT ![1] = @ + 1]
    /\ last' = [last EXCEPT ![1] = "reply"]
    /\ pc' = [pc EXCEPT ![1] = "loop"]
    /\ lpc' = "handled"
    /\ UNCHANGED <<agents, message_history, message, agent, result, passes, plan, next_id>>
    /\ UNCHANGED <<outside_loop, model_calls, llm_messages, working_messages, response, iteration,
                   requests, tool_results, ran, final_response, invoke_result>>

\* task.py:133-145: the pump catches what invoke raised and enqueues the
\* error message for "Eric".
RaiseHandled ==
    /\ lpc = "raised"
    /\ pc[1] = "await"
    /\ LET e == ErrorMessage(next_id + 1, agent[1], message[1].receiver)
       IN /\ message_pool' = Append(message_pool, e)
          /\ enqueued' = Append(enqueued, e)
          /\ message' = [message EXCEPT ![1] = e]
    /\ next_id' = next_id + 1
    /\ iterations' = [iterations EXCEPT ![1] = @ + 1]
    /\ last' = [last EXCEPT ![1] = "raise"]
    /\ pc' = [pc EXCEPT ![1] = "loop"]
    /\ lpc' = "handled"
    /\ UNCHANGED <<agents, message_history, agent, result, passes, plan>>
    /\ UNCHANGED <<outside_loop, model_calls, llm_messages, working_messages, response, iteration,
                   requests, tool_results, ran, final_response, invoke_result>>

\* The first call of Task.invoke has dispatched the user's message to "Eric"
\* (Invoke, then Dispatch) and awaits agent.invoke; the model asks for the
\* same tools whenever it asks for tools.
InitLoop ==
    /\ agents = <<"Eric">>
    /\ message_pool = <<>>
    /\ message_history = <<UserMessage(1)>>
    /\ pc = [c \in Calls |-> IF c = 1 THEN "await" ELSE "idle"]
    /\ iterations = [c \in Calls |-> 0]
    /\ message = [c \in Calls |-> IF c = 1 THEN UserMessage(1) ELSE NoMessage]
    /\ agent = [c \in Calls |-> IF c = 1 THEN "Eric" ELSE None]
    /\ result = [c \in Calls |-> NoMessage]
    /\ last = [c \in Calls |-> IF c = 1 THEN "dispatch" ELSE "none"]
    /\ passes = [c \in Calls |-> IF c = 1 THEN 1 ELSE 0]
    /\ plan = [a \in AgentNames |-> [k \in Kinds |-> "unset"]]
    /\ next_id = 1
    /\ enqueued = <<UserMessage(1)>>
    /\ lpc = "invoke"
    /\ model_calls \in CallLists
    /\ llm_messages = <<>>
    /\ working_messages = <<>>
    /\ response = NoResponse
    /\ iteration = 0
    /\ requests = 0
    /\ tool_results = <<>>
    /\ ran = <<>>
    /\ final_response = NoResponse
    /\ invoke_result = NoMessage
    /\ RosterOf(agents)
    /\ SwarmIdle
    /\ snapshot = SnapshotOf(message_history)
    /\ SchemaIdle
    /\ ConvertIdle
    /\ CodecIdle
    /\ AdapterIdle

NextLoop ==
    \/ InvokeAgent
    \/ ChatReturns
    \/ ChatRaises
    \/ EnterLoop
    \/ ToolRound
    \/ LoopReturns
    \/ InvokeReturns
    \/ InvokeRaises
    \/ ReplyHandled
    \/ RaiseHandled

SpecLoop == InitLoop /\ [][NextLoop]_vars

\* --------------------------------------------------------------- the roster
\* Calls of Roster.register_card and Roster.unregister_card on the roster of
\* a Swarm in which no task runs.

\* Roster.register_card(card) is called.
RegisterCard(card) ==
    /\ Len(cards) < MaxRoster
    /\ cards' = register_card([cards |-> cards, agent_map |-> agent_map], card).cards
    /\ agent_map' = register_card([cards |-> cards, agent_map |-> agent_map], card).agent_map
    /\ UNCHANGED outside_roster

\* Roster.unregister_card(card) is called.
UnregisterCard(card) ==
    /\ cards' = unregister_card([cards |-> cards, agent_map |-> agent_map], card).cards
    /\ agent_map' = unregister_card([cards |-> cards, agent_map |-> agent_map], card).agent_map
    /\ UNCHANGED outside_roster

\* A new Swarm (swarm.py:13-16): an empty roster, no agents, no tasks.
InitRoster ==
    /\ agents = <<>>
    /\ message_pool = <<>>
    /\ message_history = <<>>
    /\ pc = [c \in Calls |-> "idle"]
    /\ iterations = [c \in Calls |-> 0]
    /\ message = [c \in Calls |-> NoMessage]
    /\ agent = [c \in Calls |-> None]
    /\ result = [c \in Calls |-> NoMessage]
    /\ last = [c \in Calls |-> "none"]
    /\ passes = [c \in Calls |-> 0]
    /\ plan = [a \in AgentNames |-> [k \in Kinds |-> "unset"]]
    /\ next_id = 0
    /\ enqueued = <<>>
    /\ LoopIdle
    /\ SwarmIdle
    /\ snapshot = NoFile
    /\ SchemaIdle
    /\ ConvertIdle
    /\ CodecIdle
    /\ AdapterIdle
    /\ cards = <<>>
    /\ agent_map = EmptyMap

NextRoster ==
    \E card \in CardObjects :
        \/ RegisterCard(card)
        \/ UnregisterCard(card)

SpecRoster == InitRoster /\ [][NextRoster]_vars

\* ---------------------------------------------------------------- the swarm
\* Calls on one Swarm from coroutines of one event loop: a coroutine runs
\* from one suspension to the next without the others running in between.
\* The pump of a call is suspended while it awaits agent.invoke (the agents
\* of this part await their provider); `running` names the caller whose
\* coroutine runs.  A pool is never empty at the top of the loop, because
\* every pass that reaches the top has appended a message since its last
\* suspension, and the passes that the model follows are fewer than
\* MAX_ITERATIONS: the sleep of task.py:86-89 and the return after the loop
\* are not among the steps of this part.

\* dict[key] = value
Bind(dict, key, value) ==
    [n \in DOMAIN dict \cup {key} |-> IF n = key THEN value ELSE dict[n]]

\* dict.pop(key)
Unbind(dict, key) == [n \in DOMAIN dict \ {key} |-> dict[n]]

\* Swarm.register_agent (swarm.py:18-20)
RegisterAgent(a) ==
    /\ running = 0
    /\ registry_calls < MaxRegistryCalls
    /\ Len(cards) < MaxRoster
    /\ cards' = register_card(TheRoster, a).cards
    /\ agent_map' = register_card(TheRoster, a).agent_map
    /\ swarm_agents' = Bind(swarm_agents, a.name, a)
    /\ registry_calls' = registry_calls + 1
    /\ UNCHANGED <<outside_swarm, swarm_tasks, task_ids, agent_task, task_pool, task_history,
                   call_pc, call_task, call_agent, call_message, call_iterations,
                   call_passes, running>>

\* Swarm.unregister_agent (swarm.py:22-24): the roster call, then
\* agents.pop(name), which raises KeyError when the name is not a key; the
\* roster call has been made by then.
UnregisterAgent(a) ==
    /\ running = 0
    /\ registry_calls < MaxRegistryCalls
    /\ cards' = unregister_card(TheRoster, a).cards
    /\ agent_map' = unregister_card(TheRoster, a).agent_map
    /\ swarm_agents' = IF a.name \in DOMAIN swarm_agents
                       THEN Unbind(swarm_agents, a.name)
                       ELSE swarm_agents
    /\ registry_calls' = registry_calls + 1
    /\ UNCHANGED <<outside_swarm, swarm_tasks, task_ids, agent_task, task_pool, task_history,
                   call_pc, call_task, call_agent, call_message, call_iterations,
                   call_passes, running>>

\* Swarm.invoke (swarm.py:26-31) with task id k, and Task.invoke
\* (task.py:55-75): the task is created when the key is new, which binds the
\* registered agents to it; the user message is appended to its pool and the
\* pump is entered.
SwarmInvoke(c, k) ==
    /\ running = 0
    /\ call_pc[c] = "idle"
    /\ swarm_tasks' = swarm_tasks \cup {k}
    /\ task_ids' = IF k \in swarm_tasks
                   THEN task_ids
                   ELSE [task_ids EXCEPT ![k] = new_task_id(swarm_tasks \cup {k}, task_ids)]
    /\ agent_task' = IF k \in swarm_tasks
                     THEN agent_task
                     ELSE BoundTo(agent_task, RegisteredAgents, k)
    /\ task_pool' = [task_pool EXCEPT ![k] = Append(@, Letter("user", "Eric"))]
    /\ call_task' = [call_task EXCEPT ![c] = k]
    /\ call_iterations' = [call_iterations EXCEPT ![c] = 0]
    /\ call_pc' = [call_pc EXCEPT ![c] = "loop"]
    /\ running' = c
    /\ UNCHANGED <<outside_swarm, roster_vars, swarm_agents, task_history, call_agent,
                   call_message, call_passes, registry_calls>>

\* The guard shared by the passes that dequeue (task.py:84-92).
SwarmCanDequeue(c) ==
    /\ running = c
    /\ call_pc[c] = "loop"
    /\ LoopCond(call_iterations[c])
    /\ task_pool[call_task[c]] # <<>>
    /\ call_passes[c] < MaxHops

\* task.py:92-93: pop(0) and the history append, for the task of call c.
SwarmDequeue(c) ==
    /\ task_pool' = [task_pool EXCEPT ![call_task[c]] = PoolAfterPop(@)]
    /\ task_history' = [task_history EXCEPT ![call_task[c]] =
                           HistoryAfter(@, Popped(task_pool[call_task[c]]))]
    /\ call_passes' = [call_passes EXCEPT ![c] = @ + 1]

\* task.py:92-94 when the snapshot raises: the exception leaves the call.
SwarmSnapshotRaises(c) ==
    /\ SwarmCanDequeue(c)
    /\ SwarmDequeue(c)
    /\ call_message' = [call_message EXCEPT ![c] = Popped(task_pool[call_task[c]])]
    /\ call_pc' = [call_pc EXCEPT ![c] = "raised"]
    /\ running' = 0
    /\ UNCHANGED <<outside_swarm, roster_vars, swarm_agents, swarm_tasks, task_ids, agent_task,
                   call_task, call_agent, call_iterations, registry_calls>>

\* task.py:92-103: the dequeued message is for the user: the call returns it.
SwarmReturnToUser(c) ==
    /\ SwarmCanDequeue(c)
    /\ Popped(task_pool[call_task[c]]).receiver = "user"
    /\ SwarmDequeue(c)
    /\ call_message' = [call_message EXCEPT ![c] = Popped(task_pool[call_task[c]])]
    /\ call_pc' = [call_pc EXCEPT ![c] = "done"]
    /\ running' = 0
    /\ UNCHANGED <<outside_swarm, roster_vars, swarm_agents, swarm_tasks, task_ids, agent_task,
                   call_task, call_agent, call_iterations, registry_calls>>

\* task.py:92-116: no agent under the receiver's name: the notice for "Eric"
\* is appended and the loop goes on, without a suspension.
SwarmAgentNotFound(c) ==
    /\ SwarmCanDequeue(c)
    /\ Popped(task_pool[call_task[c]]).receiver # "user"
    /\ task_get_agent(call_task[c], Popped(task_pool[call_task[c]]).receiver) = NoAgent
    /\ task_pool' = [task_pool EXCEPT ![call_task[c]] =
                        Append(PoolAfterPop(@), Letter("system", "Eric"))]
    /\ task_history' = [task_history EXCEPT ![call_task[c]] =
                           HistoryAfter(@, Popped(task_pool[call_task[c]]))]
    /\ call_passes' = [call_passes EXCEPT ![c] = @ + 1]
    /\ call_message' = [call_message EXCEPT ![c] = Letter("system", "Eric")]
    /\ UNCHANGED <<outside_swarm, roster_vars, swarm_agents, swarm_tasks, task_ids, agent_task,
                   call_pc, call_task, call_agent, call_iterations, running,
                   registry_calls>>

\* task.py:92-120: the receiver's name is a key of the task's agents:
\* agent.invoke is called and awaited; the coroutine is suspended.
SwarmDispatch(c) ==
    /\ SwarmCanDequeue(c)
    /\ Popped(task_pool[call_task[c]]).receiver # "user"
    /\ task_get_agent(call_task[c], Popped(task_pool[call_task[c]]).receiver) # NoAgent
    /\ SwarmDequeue(c)
    /\ call_message' = [call_message EXCEPT ![c] = Popped(task_pool[call_task[c]])]
    /\ call_agent' = [call_agent EXCEPT ![c] =
                         task_get_agent(call_task[c], Popped(task_pool[call_task[c]]).receiver)]
    /\ call_pc' = [call_pc EXCEPT ![c] = "await"]
    /\ running' = 0
    /\ UNCHANGED <<outside_swarm, roster_vars, swarm_agents, swarm_tasks, task_ids, agent_task,
                   call_task, call_iterations, registry_calls>>

\* task.py:120-126, 145: the awaited agent returned a message for receiver r:
\* it is appended to the pool and the coroutine runs on.
SwarmAgentReplies(c) ==
    \E r \in LetterReceivers :
        /\ running = 0
        /\ call_pc[c] = "await"
        /\ task_pool' = [task_pool EXCEPT ![call_task[c]] =
                            Append(@, Letter(call_agent[c].name, r))]
        /\ call_iterations' = [call_iterations EXCEPT ![c] = @ + 1]
        /\ call_pc' = [call_pc EXCEPT ![c] = "loop"]
        /\ running' = c
        /\ UNCHANGED <<outside_swarm, roster_vars, swarm_agents, swarm_tasks, task_ids, agent_task,
                       task_history, call_task, call_agent, call_message, call_passes,
                       registry_calls>>

\* task.py:127-131, 147-157: the awaited agent returned None: the call
\* returns the message built after the loop.
SwarmAgentReturnsNone(c) ==
    /\ running = 0
    /\ call_pc[c] = "await"
    /\ call_pc' = [call_pc EXCEPT ![c] = "done"]
    /\ UNCHANGED <<outside_swarm, roster_vars, swarm_agents, swarm_tasks, task_ids, agent_task,
                   task_pool, task_history, call_task, call_agent, call_message,
                   call_iterations, call_passes, running, registry_calls>>

\* task.py:133-145: the awaited agent raised: the error message for "Eric"
\* is appended to the pool and the coroutine runs on.
SwarmAgentRaises(c) ==
    /\ running = 0
    /\ call_pc[c] = "await"
    /\ task_pool' = [task_pool EXCEPT ![call_task[c]] =
                        Append(@, Letter(call_agent[c].name, "Eric"))]
    /\ call_message' = [call_message EXCEPT ![c] = Letter(call_agent[c].name, "Eric")]
    /\ call_iterations' = [call_iterations EXCEPT ![c] = @ + 1]
    /\ call_pc' = [call_pc EXCEPT ![c] = "loop"]
    /\ running' = c
    /\ UNCHANGED <<outside_swarm, roster_vars, swarm_agents, swarm_tasks, task_ids, agent_task,
                   task_history, call_task, call_agent, call_passes, registry_calls>>

\* A new Swarm (swarm.py:12-16): no agents, an empty roster, no tasks.
InitSwarm ==
    /\ agents = <<>>
    /\ message_pool = <<>>
    /\ message_history = <<>>
    /\ pc = [c \in Calls |-> "idle"]
    /\ iterations = [c \in Calls |-> 0]
    /\ message = [c \in Calls |-> NoMessage]
    /\ agent = [c \in Calls |-> None]
    /\ result = [c \in Calls |-> NoMessage]
    /\ last = [c \in Calls |-> "none"]
    /\ passes = [c \in Calls |-> 0]
    /\ plan = [a \in AgentNames |-> [k \in Kinds |-> "unset"]]
    /\ next_id = 0
    /\ enqueued = <<>>
    /\ LoopIdle
    /\ SwarmIdle
    /\ snapshot = NoFile
    /\ SchemaIdle
    /\ ConvertIdle
    /\ CodecIdle
    /\ AdapterIdle
    /\ cards = <<>>
    /\ agent_map = EmptyMap

NextSwarm ==
    \/ \E a \in AgentObjects : RegisterAgent(a) \/ UnregisterAgent(a)
    \/ \E c \in Callers :
          \/ \E k \in TaskKeys : SwarmInvoke(c, k)
          \/ SwarmReturnToUser(c)
          \/ SwarmAgentNotFound(c)
          \/ SwarmDispatch(c)
          \/ SwarmSnapshotRaises(c)
          \/ SwarmAgentReplies(c)
          \/ SwarmAgentReturnsNone(c)
          \/ SwarmAgentRaises(c)

SpecSwarm == InitSwarm /\ [][NextSwarm]_vars

\* ------------------------------------------------------- message round trip
\* data = m.to_dict()
ToDict ==
    /\ original # NoData
    /\ data = NoData
    /\ data' = to_dict(original)
    /\ UNCHANGED <<outside_codec, original, restored>>

\* AgentMessage.from_dict(data), at a later time and with another uuid4()
\* than the ones of m.
FromDict ==
    \E now \in Times : \E uuid \in Uuids :
        /\ data # NoData
        /\ restored = NoData
        /\ restored' = from_dict(data, now, uuid)
        /\ UNCHANGED <<outside_codec, original, data>>

InitCodec ==
    /\ agents = <<>>
    /\ message_pool = <<>>
    /\ message_history = <<>>
    /\ pc = [c \in Calls |-> "idle"]
    /\ iterations = [c \in Calls |-> 0]
    /\ message = [c \in Calls |-> NoMessage]
    /\ agent = [c \in Calls |-> None]
    /\ result = [c \in Calls |-> NoMessage]
    /\ last = [c \in Calls |-> "none"]
    /\ passes = [c \in Calls |-> 0]
    /\ plan = [a \in AgentNames |-> [k \in Kinds |-> "unset"]]
    /\ next_id = 0
    /\ enqueued = <<>>
    /\ LoopIdle
    /\ SwarmIdle
    /\ snapshot = NoFile
    /\ SchemaIdle
    /\ ConvertIdle
    /\ AdapterIdle
    /\ cards = <<>>
    /\ agent_map = EmptyMap
    /\ original \in Messages
    /\ data = NoData
    /\ restored = NoData

NextCodec == ToDict \/ FromDict

SpecCodec == InitCodec /\ [][NextCodec]_vars

\* ------------------------------------------------------------- the adapters
\* OpenAICompatibleAdapter.chat_completion (api_adapters.py:55-100)
OpenAIChat ==
    /\ provider \in OpenAICompatible
    /\ completion = NoData
    /\ completion' = OpenAI_format_response(backend)
    /\ UNCHANGED <<outside_adapter, provider, backend>>

\* GoogleGeminiAdapter.chat_completion (api_adapters.py:193-262)
GeminiChat ==
    /\ provider = "google"
    /\ completion = NoData
    /\ completion' = Gemini_format_response(backend)
    /\ UNCHANGED <<outside_adapter, provider, backend>>

\* SiliconflowAdapter.chat_completion (api_adapters.py:359-408)
SiliconflowChat ==
    /\ provider = "siliconflow"
    /\ completion = NoData
    /\ completion' = Siliconflow_format_response(backend)
    /\ UNCHANGED <<outside_adapter, provider, backend>>

InitAdapter ==
    /\ agents = <<>>
    /\ message_pool = <<>>
    /\ message_history = <<>>
    /\ pc = [c \in Calls |-> "idle"]
    /\ iterations = [c \in Calls |-> 0]
    /\ message = [c \in Calls |-> NoMessage]
    /\ agent = [c \in Calls |-> None]
    /\ result = [c \in Calls |-> NoMessage]
    /\ last = [c \in Calls |-> "none"]
    /\ passes = [c \in Calls |-> 0]
    /\ plan = [a \in AgentNames |-> [k \in Kinds |-> "unset"]]
    /\ next_id = 0
    /\ enqueued = <<>>
    /\ LoopIdle
    /\ SwarmIdle
    /\ snapshot = NoFile
    /\ SchemaIdle
    /\ ConvertIdle
    /\ CodecIdle
    /\ cards = <<>>
    /\ agent_map = EmptyMap
    /\ provider \in Providers
    /\ backend \in Responses(provider)
    /\ completion = NoData

NextAdapter == OpenAIChat \/ GeminiChat \/ SiliconflowChat

SpecAdapter == InitAdapter /\ [][NextAdapter]_vars

\* ------------------------------------------------------ the schema of a tool
\* tool.schema is read: _parameters is computed (tool_base.py:11-50).
ReadSchema ==
    /\ schema = NoData
    /\ schema' = ProjectedParameters(parameters)
    /\ UNCHANGED <<outside_schema, parameters>>

InitSchema ==
    /\ agents = <<>>
    /\ message_pool = <<>>
    /\ message_history = <<>>
    /\ pc = [c \in Calls |-> "idle"]
    /\ iterations = [c \in Calls |-> 0]
    /\ message = [c \in Calls |-> NoMessage]
    /\ agent = [c \in Calls |-> None]
    /\ result = [c \in Calls |-> NoMessage]
    /\ last = [c \in Calls |-> "none"]
    /\ passes = [c \in Calls |-> 0]
    /\ plan = [a \in AgentNames |-> [k \in Kinds |-> "unset"]]
    /\ next_id = 0
    /\ enqueued = <<>>
    /\ LoopIdle
    /\ SwarmIdle
    /\ snapshot = NoFile
    /\ CodecIdle
    /\ AdapterIdle
    /\ ConvertIdle
    /\ cards = <<>>
    /\ agent_map = EmptyMap
    /\ parameters \in ParameterLists
    /\ schema = NoData

NextSchema == ReadSchema

SpecSchema == InitSchema /\ [][NextSchema]_vars

\* ------------------------------------------------- the conversion for Gemini
\* The call of _convert_messages in GoogleGeminiAdapter.chat_completion
\* (api_adapters.py:232).
ConvertMessages ==
    /\ gemini_messages = NotConverted
    /\ gemini_messages' = convert_messages(chat_messages)
    /\ UNCHANGED <<outside_convert, chat_messages>>

InitConvert ==
    /\ agents = <<>>
    /\ message_pool = <<>>
    /\ message_history = <<>>
    /\ pc = [c \in Calls |-> "idle"]
    /\ iterations = [c \in Calls |-> 0]
    /\ message = [c \in Calls |-> NoMessage]
    /\ agent = [c \in Calls |-> None]
    /\ result = [c \in Calls |-> NoMessage]
    /\ last = [c \in Calls |-> "none"]
    /\ passes = [c \in Calls |-> 0]
    /\ plan = [a \in AgentNames |-> [k \in Kinds |-> "unset"]]
    /\ next_id = 0
    /\ enqueued = <<>>
    /\ LoopIdle
    /\ SwarmIdle
    /\ snapshot = NoFile
    /\ CodecIdle
    /\ AdapterIdle
    /\ SchemaIdle
    /\ cards = <<>>
    /\ agent_map = EmptyMap
    /\ chat_messages \in ChatMessageLists
    /\ gemini_messages = NotConverted

NextConvert == ConvertMessages

SpecConvert == InitConvert /\ [][NextConvert]_vars

\* ------------------------------------------------------------ properties

Last(s) == s[Len(s)]

\* The environment's record of what the agent awaited by call c did.
Outcome(c) ==
    IF agent[c] \in AgentNames THEN plan[agent[c]][Kind(message[c])] ELSE "unset"

\* C1 (as stated): a call of Task.invoke that dequeues no message for the
\* user ends at exactly MAX_ITERATIONS pump iterations: no call makes a loop
\* pass beyond the 50th.
C1_EndsAtCeiling ==
    \A c \in Calls : passes[c] <= MAX_ITERATIONS

\* C2 (as stated): no exception escapes Task.invoke: no call ends by raising.
C2_NoExceptionEscapes ==
    \A c \in Calls : pc[c] # "raised"

\* C3: when agent.invoke raises, the pump appends exactly one message to the
\* pool, from that agent's card name to "Eric" with the task's id, adds one
\* to the iteration counter, leaves the history as it is and goes on with
\* the next loop pass.
C3_AgentRaiseHandled ==
    [][\A c \in Calls :
          (pc[c] = "await" /\ pc'[c] # "await"
               /\ plan'[agent[c]][Kind(message[c])] = "raise")
              => /\ Len(message_pool') = Len(message_pool) + 1
                 /\ SubSeq(message_pool', 1, Len(message_pool)) = message_pool
                 /\ Last(message_pool').sender = agent[c]
                 /\ Last(message_pool').receiver = "Eric"
                 /\ Last(message_pool').task_id = TaskId
                 /\ iterations'[c] = iterations[c] + 1
                 /\ message_history' = message_history
                 /\ pc'[c] = "loop"]_vars

\* C3 witness: an agent other than the coordinator has raised and its error
\* message waits in the pool.
C3_Witness ==
    \E c \in Calls :
        /\ pc[c] = "loop"
        /\ last[c] = "raise"
        /\ agent[c] = "Worker"
        /\ message_pool # <<>>
        /\ Last(message_pool).sender = "Worker"
        /\ Last(message_pool).content[1] = "error"

\* C4: a returned message is addressed to "user", and when the call ended at
\* the iteration ceiling or on an agent's None it is from "system".
C4_ReturnedToUser ==
    \A c \in Calls :
        pc[c] = "done"
            => /\ result[c].receiver = "user"
               /\ (last[c] \in {"timeout", "null"} \/ iterations[c] = MAX_ITERATIONS)
                      => result[c].sender = "system"

\* C4 witness: a call has returned at the ceiling, with messages in the pool
\* and a history that holds no message for the user.
C4_Witness ==
    \E c \in Calls :
        /\ pc[c] = "done"
        /\ iterations[c] = MAX_ITERATIONS
        /\ result[c].sender = "system"
        /\ message_pool # <<>>
        /\ \A i \in DOMAIN message_history : message_history[i].receiver # "user"

C6_IterationsBounded ==
    \A c \in Calls : iterations[c] <= MAX_ITERATIONS

\* C6 witness: a call stands at the ceiling.
C6_Witness ==
    \E c \in Calls : iterations[c] = MAX_ITERATIONS /\ pc[c] = "loop"

C8_Fifo ==
    message_history \o message_pool = enqueued

\* C8 witness: the second call found a message left in the pool by the first
\* call, which ended at the ceiling; the left message was dequeued before the
\* second call's user message.
C8_Witness ==
    \E n \in DOMAIN message_history :
        /\ n > 1
        /\ pc[1] = "done"
        /\ message_history[n].sender = "user"
        /\ result[1].message_id = message_history[n - 1].message_id + 1
        /\ message_history[n].message_id = message_history[n - 1].message_id + 2

\* Messages that have left the pool.
Dequeued == Len(enqueued) - Len(message_pool)

\* C9: the history changes only when a message leaves the pool, and then by
\* appending that message; each message is in the history once, and the
\* history holds as many messages as have left the pool.
C9_HistoryAppendOnly ==
    [][/\ \/ Dequeued' = Dequeued /\ message_history' = message_history
          \/ /\ Dequeued' = Dequeued + 1
             /\ \E i \in DOMAIN message_pool :
                   message_history' = Append(message_history, message_pool[i])
       /\ Len(message_history') = Dequeued'
       /\ message_history' # message_history
             => \A i \in DOMAIN message_history :
                   message_history[i].message_id # Last(message_history').message_id]_vars

\* C9 witness: a history of the user message, a not-found notice and replies.
C9_Witness ==
    /\ Len(message_history) >= 4
    /\ \E i \in DOMAIN message_history : message_history[i].sender = "system"
    /\ \E i \in DOMAIN message_history : message_history[i].sender = "Worker"

\* The message m names a receiver for which get_agent finds no agent.
Unrouted(m) == m.receiver # "user" /\ get_agent(agents, m.receiver) = None

\* C10 (as stated): a dequeued message for an unregistered receiver does not
\* end the call: the pass enqueues one notice from "system" to "Eric" that
\* names the receiver and carries the task's id; and a user-addressed answer
\* of the coordinator to such a notice, once dequeued, is what the call returns.
C10_NotFoundRerouted ==
    \A c \in Calls :
        /\ (pc[c] = "raised" => ~Unrouted(message[c]))
        /\ (pc[c] = "loop" /\ last[c] = "not found")
               => /\ message_pool # <<>>
                  /\ Last(message_pool).sender = "system"
                  /\ Last(message_pool).receiver = "Eric"
                  /\ Last(message_pool).task_id = TaskId
                  /\ Last(message_pool).content = <<"not found", Last(message_history).receiver>>
        /\ \A n \in DOMAIN message_history :
               (/\ n > 1
                /\ message_history[n] = message[c]
                /\ message[c].sender = "Eric"
                /\ message[c].receiver = "user"
                /\ message_history[n - 1].content[1] = "not found")
                   => pc[c] = "done" /\ result[c] = message[c]

\* C11 (as stated), scenario S1: with "Echo" as the only registered agent the
\* first call dequeues the user message and Echo's answer and nothing else,
\* and returns Echo's message to the user with a history of length 2.
C11_S1_EchoAnswers ==
    (agents = <<"Echo">> /\ pc[1] # "idle" /\ pc[2] = "idle")
        => /\ Len(message_history) <= 2
           /\ \A i \in DOMAIN message_history :
                 message_history[i].sender \in {"user", "Echo"}
           /\ pc[1] = "done"
                 => /\ result[1].sender = "Echo"
                    /\ result[1].receiver = "user"
                    /\ Len(message_history) = 2

\* "Eric" and "Worker" are the registered agents and each forwards to the
\* other whatever it is sent.
PingPong ==
    /\ Range(agents) = {"Eric", "Worker"}
    /\ plan["Eric"]["user"] = "Worker"
    /\ plan["Eric"]["other"] = "Worker"
    /\ plan["Worker"]["other"] = "Eric"

\* C12: a call that leaves the loop at the iteration ceiling returns a message
\* from "system" to "user" with the task's id whose reported count is the
\* length of the history at that moment; when "Eric" and "Worker" forward to
\* each other forever, the first call returns after 50 passes and reports 50.
C12_TimeoutReportsHistory ==
    [][\A c \in Calls :
          (pc[c] = "loop" /\ pc'[c] = "done" /\ iterations[c] = MAX_ITERATIONS)
              => /\ result'[c].sender = "system"
                 /\ result'[c].receiver = "user"
                 /\ result'[c].task_id = TaskId
                 /\ result'[c].content = <<"timeout", Len(message_history')>>
                 /\ (PingPong /\ c = 1)
                        => /\ passes'[c] = 50
                           /\ result'[c].content = <<"timeout", 50>>]_vars

\* C12 witness: the first call returned at the ceiling from the ping-pong of
\* "Eric" and "Worker", reporting 50 messages.
C12_Witness ==
    /\ PingPong
    /\ pc[1] = "done"
    /\ last[1] = "timeout"
    /\ passes[1] = 50
    /\ Len(message_history) = 50
    /\ result[1].content = <<"timeout", 50>>

\* Scenario S2: "Eric" hands the user's message to "Worker", who answers the user.
S2 ==
    /\ Range(agents) = {"Eric", "Worker"}
    /\ plan["Eric"]["user"] = "Worker"
    /\ plan["Worker"]["other"] = "user"

\* The call c returned the message written after the loop.
Synthetic(c) == pc[c] = "done" /\ last[c] \in {"timeout", "null"}

\* C13: a call that ends on a dequeued message for the user returns the last
\* element of the history, and in a task's first call the history then holds
\* the user message and one message per later pass, nothing being left in
\* the pool (three messages in scenario S2); the message returned at the
\* ceiling or after an agent's None is never an element of the history.
C13_ReturnedAndHistory ==
    /\ [](\A c \in Calls :
             Synthetic(c)
                 => /\ result[c] \notin Range(message_history)
                    /\ \A i \in DOMAIN message_history :
                          message_history[i].message_id # result[c].message_id)
    /\ [][\A c \in Calls :
             (pc[c] # "done" /\ pc'[c] = "done" /\ last'[c] = "user")
                 => /\ message_history' # <<>>
                    /\ result'[c] = Last(message_history')
                    /\ result'[c].receiver = "user"
                    /\ c = 1
                         => /\ message_history'[1] = UserMessage(1)
                            /\ Len(message_history') = passes'[c]
                            /\ message_history' = enqueued'
                            /\ message_pool' = <<>>
                            /\ S2 => Len(message_history') = 3]_vars

\* C13 witness: scenario S2 has run: the first call returned Worker's answer,
\* the third and last message of the history.
C13_Witness ==
    /\ S2
    /\ pc[1] = "done"
    /\ last[1] = "user"
    /\ Len(message_history) = 3
    /\ result[1] = message_history[3]
    /\ result[1].sender = "Worker"

\* --------------------------------------------- properties of agent.invoke

\* The loop returned the error-wrapped object.
Wrapped(final) == "error" \in DOMAIN final

\* The tool rounds run so far: the assistant messages of working_messages.
Rounds ==
    Cardinality({i \in DOMAIN working_messages : working_messages[i].role = "assistant"})

\* C14 (as stated): one invoke sends at most max_function_calls + 1 completion
\* requests, and when every completion carries tool_calls the loop returns
\* the error-wrapped last response after exactly max_function_calls + 1 = 11.
C14_RequestsBounded ==
    /\ requests <= max_function_calls + 1
    /\ (lpc = "returned" /\ Wrapped(final_response))
           => /\ requests = max_function_calls + 1
              /\ final_response.last_response = response

\* The runs of tool.run that one round of the model's calls makes.
RunsPerRound == Len(execute_tool_calls(ToolCalls(model_calls, 1)).ran)

\* C15: when the first k completions carry tool_calls (0 <= k <=
\* max_function_calls) and completion k + 1 is plain content, the loop
\* returns after k + 1 completion requests and k tool rounds, and what it
\* returns is completion k + 1 itself, not wrapped; with k = 0 no tool is run
\* and nothing is added to the working messages.
C15_PlainResponseReturned ==
    (lpc = "returned" /\ response.tool_calls = <<>> /\ requests <= max_function_calls + 1)
        => /\ Rounds = requests - 1
           /\ iteration = requests - 1
           /\ Len(ran) = (requests - 1) * RunsPerRound
           /\ final_response = response
           /\ ~Wrapped(final_response)
           /\ requests = 1
                  => /\ ran = <<>>
                     /\ tool_results = <<>>
                     /\ working_messages = llm_messages

\* C15 witness: plain content came as completion max_function_calls + 1,
\* after ten rounds in which tools were run, and was returned.
C15_Witness ==
    /\ lpc = "returned"
    /\ requests = max_function_calls + 1
    /\ Rounds = max_function_calls
    /\ Len(ran) >= max_function_calls
    /\ response.content = RoutedContent
    /\ final_response = response

\* C16: in the working messages every assistant message carries tool calls
\* and is followed at once by one tool message per call, in the order of the
\* calls: the message at offset i after it answers tool_calls[i]; the next
\* message, if any, opens the next round.
C16_RoundLayout ==
    \A p \in DOMAIN working_messages :
        working_messages[p].role = "assistant"
            => LET calls == working_messages[p].tool_calls
                   n == Len(calls)
               IN /\ n > 0
                  /\ p + n <= Len(working_messages)
                  /\ \A i \in 1 .. n :
                        /\ working_messages[p + i].role = "tool"
                        /\ working_messages[p + i].tool_call_id = calls[i].id
                  /\ p + n < Len(working_messages)
                        => working_messages[p + n + 1].role = "assistant"

\* C16 witness: two rounds of two calls each are in the working messages,
\* the first call of a round failing and the second succeeding.
C16_Witness ==
    /\ Len(working_messages) = 8
    /\ working_messages[3].role = "assistant"
    /\ Len(working_messages[3].tool_calls) = 2
    /\ working_messages[4].content[3] = "error"
    /\ working_messages[5].content[3] = "success"
    /\ working_messages[6].role = "assistant"
    /\ working_messages[8].tool_call_id = working_messages[6].tool_calls[2].id

\* C17: a round of the loop ends with the next completion request whatever
\* the tools did: it produces exactly one result per tool call, in the order
\* of the calls: an error result with the tool-not-found text for a name that
\* is not registered, an error result when the run raises, the empty object
\* as arguments when the arguments are not JSON; and tool.run is called for
\* every call of a registered tool, those after a failing call included.
C17_ToolFailuresContained ==
    [][(lpc = "while" /\ lpc' # "while" /\ WhileCond(iteration, response))
          => LET calls == response.tool_calls
             IN /\ lpc' = "chat in loop"
                /\ Len(tool_results') = Len(calls)
                /\ \A i \in DOMAIN calls :
                      LET name == calls[i].function.name
                          res == tool_results'[i]
                      IN /\ res.tool_name = name
                         /\ res.status \in {"success", "error"}
                         /\ name \notin RegisteredTools
                               => res.status = "error" /\ res.content[1] = "tool not found"
                         /\ name = "broken"
                               => res.status = "error" /\ res.content[1] = "run error"
                         /\ calls[i].function.arguments = TruncatedArguments
                               => res.arguments = EmptyObject
                         /\ (name = "shell" /\ calls[i].function.arguments # ArrayArguments)
                               => res.status = "success"
                         /\ name \in RegisteredTools
                               => \E j \in DOMAIN ran' : j > Len(ran) /\ ran'[j] = calls[i].id]_vars

\* C17 witness: in the round just run the first call named a tool that is not
\* registered and the second, whose arguments were not JSON, was run with the
\* empty object.
C17_Witness ==
    /\ lpc = "chat in loop"
    /\ Len(tool_results) = 2
    /\ tool_results[1].status = "error"
    /\ tool_results[1].content[1] = "tool not found"
    /\ tool_results[2].status = "success"
    /\ tool_results[2].arguments = EmptyObject
    /\ ran # <<>>

\* C18: the loop leaves the caller's message list as it was passed in: no
\* step after invoke built the list changes it, and when the loop has
\* returned the list is the built one, with its two elements, however many
\* rounds were run; what the rounds appended is in the working messages only.
C18_CallerListUnchanged ==
    /\ [][lpc # "invoke" => llm_messages' = llm_messages]_vars
    /\ [](lpc = "returned"
             => /\ llm_messages = build_llm_messages(UserMessage(1))
                /\ Len(llm_messages) = 2
                /\ Len(working_messages) >= 2 + Rounds
                /\ SubSeq(working_messages, 1, 2) = llm_messages)

\* C18 witness: the loop returned after three rounds; the working messages
\* have grown and the caller's list has not.
C18_Witness ==
    /\ lpc = "returned"
    /\ Rounds = 3
    /\ Len(working_messages) >= 8
    /\ Len(llm_messages) = 2

\* The final content is not JSON (the error-wrapped object has no content and
\* is read as the empty text), or is a JSON object without "receiver".
BadOutput(final) ==
    \/ json_loads(FinalContent(final)).raises
    \/ /\ json_loads(FinalContent(final)).value.type = "object"
       /\ dict_get(json_loads(FinalContent(final)).value, "receiver", None) = None

\* C19 (as stated): when the final output of the agent is not valid JSON or
\* is a JSON object without a receiver, invoke builds no message from it and
\* the pump enqueues an error message from the agent to "Eric" and nothing else.
C19_BadOutputIsException ==
    (lpc \in {"replied", "handled"} /\ requests > 0 /\ BadOutput(final_response))
        => /\ lpc = "handled"
           /\ invoke_result = NoMessage
           /\ Len(message_pool) = 1
           /\ message_pool[1].content[1] = "error"
           /\ message_pool[1].sender = "Eric"
           /\ message_pool[1].receiver = "Eric"

\* ------------------------------------------------ properties of the roster

\* C20 (as stated): no two entries of the roster's card list carry the same
\* non-empty name, whatever register and unregister calls were made.
C20_NamesUnique ==
    \A i, j \in DOMAIN cards :
        (cards[i].name = cards[j].name /\ cards[i].name # "") => i = j

\* C21 (as stated): unregister_card called with a card that is not in the
\* card list leaves the roster as it was, the list and the name lookup both,
\* also when another card of the same name is registered.
C21_UnregisterAbsentIsNoop ==
    [][\A card \in CardObjects :
          (/\ card \notin Range(cards)
           /\ cards' = unregister_card(TheRoster, card).cards
           /\ agent_map' = unregister_card(TheRoster, card).agent_map)
              => (cards' = cards /\ agent_map' = agent_map)]_vars

\* The place of the first card named `name` in the list s, 0 when there is none.
PlaceOf(s, name) ==
    IF \E i \in DOMAIN s : s[i].name = name
    THEN CHOOSE i \in DOMAIN s : s[i].name = name /\ \A j \in 1 .. i - 1 : s[j].name # name
    ELSE 0

\* C22 (as stated): the card list keeps the order of registration, and a card
\* registered under a name that the roster holds takes the place of the card
\* it replaces: the list has the same length and the same names at the same
\* places as before.
C22_ReplacedInPlace ==
    [][\A card \in CardObjects :
          (/\ card.name # ""
           /\ card.name \in DOMAIN agent_map
           /\ agent_map[card.name] \in Range(cards)
           /\ cards' = register_card(TheRoster, card).cards
           /\ agent_map' = register_card(TheRoster, card).agent_map)
              => /\ Len(cards') = Len(cards)
                 /\ \A i \in DOMAIN cards : cards'[i].name = cards[i].name
                 /\ cards'[PlaceOf(cards, card.name)] = card]_vars

\* ---------------------------------------------------- properties of the swarm
\* The number of places of the roster's list that hold a card of this name.
Listed(s, name) == Cardinality({i \in DOMAIN s : s[i].name = name})

\* C23: after Swarm.register_agent(b) while an agent a with the same card
\* name is registered, the binding is replaced - a message addressed to the
\* name is dispatched to b by every task - and the roster lists the name
\* exactly once.
C23_DuplicateReplaces ==
    [][\A b \in AgentObjects :
          (/\ b.name \in DOMAIN swarm_agents
           /\ swarm_agents[b.name] # b
           /\ registry_calls' = registry_calls + 1
           /\ swarm_agents' = Bind(swarm_agents, b.name, b)
           /\ cards' = register_card(TheRoster, b).cards
           /\ agent_map' = register_card(TheRoster, b).agent_map)
              => /\ \A t \in TaskKeys : task_get_agent(t, b.name)' = b
                 /\ Listed(cards', b.name) = 1]_vars

\* C24: whenever Swarm.invoke delegates to Task.invoke for a task T, created
\* by the call or located, every agent registered in the Swarm at that
\* moment is bound to T (agent.task, agent.task_id, the adapter's task id).
C24_BoundAtDelegation ==
    [][\A c \in Callers : \A k \in TaskKeys :
          (/\ call_pc[c] = "idle"
           /\ call_pc'[c] = "loop"
           /\ call_task'[c] = k)
              => \A a \in RegisteredAgents' : agent_task'[a] = k]_vars

\* The call of caller c has returned and no other call is at work on its task.
Finished(c) ==
    /\ call_pc[c] = "done"
    /\ \A d \in Callers \ {c} :
          call_task[d] = call_task[c] => call_pc[d] \in {"done", "raised"}

\* C25: the back-reference of an agent is cleared when the task ends: after
\* Swarm.invoke has returned, no registered agent is bound to that task.
C25_ClearedAtEnd ==
    \A c \in Callers :
        Finished(c) => \A a \in RegisteredAgents : agent_task[a] # call_task[c]

\* Caller c is inside Swarm.invoke.
InProgress(c) == call_pc[c] \in {"loop", "await"}

\* C26: when two Swarm.invoke calls for different task ids overlap, an agent
\* invoked by the pump of task T is bound to T for the whole of the
\* invocation.
C26_BoundWhileInvoked ==
    \A c \in Callers : \A d \in Callers \ {c} :
        (/\ InProgress(c) /\ InProgress(d)
         /\ call_task[c] # call_task[d]
         /\ call_pc[c] = "await")
            => agent_task[call_agent[c]] = call_task[c]

\* C27: at most one agent invocation of a task is in flight at any time,
\* a second Swarm.invoke with the same task id, issued while the first is
\* suspended, included.
C27_OneInFlightPerTask ==
    \A c \in Callers : \A d \in Callers \ {c} :
        (call_pc[c] = "await" /\ call_pc[d] = "await")
            => call_task[c] # call_task[d]

\* C28: while the pump of a task is suspended, no step changes the agent
\* that the pump dispatches a name to.
C28_RoutingStableWhileSuspended ==
    [][\A t \in TaskKeys :
          (\E c \in Callers : call_task[c] = t /\ call_pc[c] = "await")
              => \A name \in LetterReceivers :
                    task_get_agent(t, name)' = task_get_agent(t, name)]_vars

\* ------------------------------------------ properties of the message codec
\* The fields that to_dict persists.
PersistedFields == {"message_id", "timestamp", "sender", "receiver", "next_receiver",
                    "content", "task_id", "metadata"}

\* C29: for every message m, from_dict(to_dict(m)) has the same message_id,
\* timestamp, sender, receiver, next_receiver, content, task_id and metadata
\* as m.
C29_RoundTrip ==
    restored # NoData => \A f \in PersistedFields : restored[f] = original[f]

\* ------------------------------------------------ properties of the adapters
\* C30: the completion an adapter returns has either a tool_calls list of
\* length at least 1 or a content that is not None: never an empty
\* tool_calls list, and never both None.
C30_CallsOrContent ==
    completion # NoData =>
        IF completion.tool_calls = Null
        THEN completion.content # None
        ELSE Len(completion.tool_calls.items) >= 1

\* ------------------------------------------- properties of the tool's schema
\* The JSON type name of a class that a tool declares.
JsonTypeName(t) ==
    CASE t = "int" -> "integer"
      [] t = "float" -> "number"
      [] t = "bool" -> "boolean"
      [] t \in {"list", "tuple", "List[str]"} -> "array"
      [] t = "dict" -> "object"
      [] OTHER -> "string"

\* The type is declared as T-or-none.
DeclaredOptional(py_type) ==
    py_type.origin_is_union /\ \E i \in DOMAIN py_type.args : py_type.args[i] = NoneType

\* The names of the parameters that are not declared optional, in order.
NotOptionalNames ==
    LET kept == SelectSeq(parameters, LAMBDA q : ~DeclaredOptional(q.type))
    IN  [i \in DOMAIN kept |-> kept[i].name]

\* C31: the `required` list of the projected schema holds exactly the
\* parameters whose declared type is not optional, in declaration order; a
\* parameter declared as T-or-none is emitted with the JSON type name of T
\* and is not in `required`.
C31_OptionalProjected ==
    schema # NoData =>
        /\ schema.required = NotOptionalNames
        /\ \A i \in DOMAIN parameters : \A t \in PlainTypes :
              parameters[i].type = OptionalOf(t)
                 => /\ schema.properties[i].type = JsonTypeName(t)
                    /\ \A j \in DOMAIN schema.required :
                          schema.required[j] # parameters[i].name

\* ------------------------------------------ properties of the conversion
\* The messages of the list that are not system messages, in order.
NonSystem == SelectSeq(chat_messages, LAMBDA m : m.role # "system")

\* The text t ends with the text u.
EndsWith(t, u) ==
    Len(u) <= Len(t) /\ SubSeq(t, Len(t) - Len(u) + 1, Len(t)) = u

\* The place of the first user turn among the messages that are not system
\* messages, 0 when the list has no user turn.
FirstUserTurn ==
    IF \E i \in DOMAIN NonSystem : NonSystem[i].role = "user"
    THEN CHOOSE i \in DOMAIN NonSystem :
            /\ NonSystem[i].role = "user"
            /\ \A j \in 1 .. i - 1 : NonSystem[j].role # "user"
    ELSE 0

\* C32: the converted list has no system entry, keeps the messages that are
\* not system messages in their order, and, when the list has a user turn,
\* carries every piece of the system instructions in front of the text of
\* the first user turn.
C32_SystemOntoFirstUserTurn ==
    gemini_messages # NotConverted =>
        /\ \A i \in DOMAIN gemini_messages : gemini_messages[i].role \in {"user", "model"}
        /\ FirstUserTurn # 0 =>
              /\ Len(gemini_messages) = Len(NonSystem)
              /\ \A i \in DOMAIN NonSystem :
                    /\ gemini_messages[i].role =
                          (IF NonSystem[i].role = "assistant" THEN "model" ELSE "user")
                    /\ EndsWith(gemini_messages[i].parts[1].text, NonSystem[i].content)
              /\ \A k \in DOMAIN chat_messages :
                    chat_messages[k].role = "system" =>
                       \A n \in DOMAIN chat_messages[k].content :
                          \E q \in 1 .. Len(gemini_messages[FirstUserTurn].parts[1].text)
                                       - Len(NonSystem[FirstUserTurn].content) :
                             gemini_messages[FirstUserTurn].parts[1].text[q]
                                = chat_messages[k].content[n]

\* ------------------------------------------------ properties of the snapshot
\* C33: once a message has been dequeued, the file holds a JSON array with
\* exactly the maps of the messages of the history, in history order: it is
\* rewritten on every history append.
C33_SnapshotIsHistory ==
    message_history # <<>> => snapshot = SnapshotOf(message_history)

\* ------------------------------------------------ properties of the registry
\* C34: after any sequence of Swarm.register_agent and Swarm.unregister_agent
\* calls, the names that the roster lists are exactly the keys of the Swarm's
\* agent map.
C34_DirectoryIsAgentMap ==
    {cards[i].name : i \in DOMAIN cards} = DOMAIN swarm_agents

\* --------------------------------------------- properties of the empty tick
\* C35: a loop pass that finds the pool empty changes neither the pool nor
\* the history and adds one to the iteration counter; a pump whose pool
\* stays empty returns, after MAX_ITERATIONS such passes, the timeout
\* message.
C35_EmptyTicksToTimeout ==
    /\ [][\A c \in Calls :
             (pc[c] = "loop" /\ message_pool = <<>> /\ passes'[c] = passes[c] + 1)
                => /\ message_pool' = message_pool
                   /\ message_history' = message_history
                   /\ iterations'[c] = iterations[c] + 1
                   /\ pc'[c] = "loop"]_vars
    /\ [](\A c \in Calls :
             pc[c] = "done"
                => /\ passes[c] = MAX_ITERATIONS
                   /\ iterations[c] = MAX_ITERATIONS
                   /\ result[c].sender = "system"
                   /\ result[c].receiver = "user"
                   /\ result[c].content = <<"timeout", Len(message_history)>>)
    /\ \A c \in Calls : (pc[c] = "loop") ~> (pc[c] = "done")

\* C35 witness: a pump has returned after MAX_ITERATIONS empty ticks, pool
\* and history still empty.
C35_Witness ==
    /\ pc[1] = "done"
    /\ last[1] = "timeout"
    /\ passes[1] = MAX_ITERATIONS
    /\ message_pool = <<>>
    /\ message_history = <<>>

\* ------------------------------------------ properties of the pool's length
\* C36: while the first Task.invoke call on a new task is the only call made,
\* the pool holds exactly one message whenever the call stands at the top of
\* the loop, so that the loop never finds it empty, and it never holds more
\* than one message.
C36_OneMessagePending ==
    pc[2] = "idle" =>
        /\ Len(message_pool) <= 1
        /\ pc[1] = "loop" => Len(message_pool) = 1

\* C36 witness: the first call stands at the top of the loop after a
\* not-found notice, a reply and an agent error were appended in turn.
C36_Witness ==
    /\ pc[2] = "idle"
    /\ pc[1] = "loop"
    /\ Len(message_pool) = 1
    /\ Len(message_history) >= 3
    /\ \E i \in DOMAIN message_history : message_history[i].sender = "system"
    /\ \E i \in DOMAIN message_history : message_history[i].content[1] = "error"

\* ------------------------------------------------ properties of the task ids
\* C37: every task stored in the Swarm's task map under key k has k as its
\* task_id, the id that its messages and its snapshot directory carry.
C37_TaskIdIsKey == \A k \in swarm_tasks : task_ids[k] = k

\* ------------------------------------------- properties of a re-invoked task
\* A call that follows a call which ended at the ceiling and left a message
\* in the pool.
Resumes(c) ==
    /\ c > 1
    /\ last[c - 1] = "timeout"
    /\ message_pool # <<>>

\* C38: a Task.invoke call on a task whose earlier call ended at the ceiling
\* with a message left in the pool puts its user message behind the left
\* message and keeps the history; the passes that follow dequeue the head of
\* the pool, so the left message enters the history before the user message,
\* and every step keeps the history it found as a prefix of the new one.
C38_ResumeKeepsOrder ==
    [][/\ \A c \in Calls :
             (Resumes(c) /\ pc[c] = "idle" /\ pc'[c] = "loop") =>
                 /\ message_history' = message_history
                 /\ Len(message_pool') = Len(message_pool) + 1
                 /\ SubSeq(message_pool', 1, Len(message_pool)) = message_pool
                 /\ Last(message_pool').sender = "user"
       /\ message_history' # message_history =>
             /\ message_pool # <<>>
             /\ message_history' = Append(message_history, Head(message_pool))
             /\ \A i \in DOMAIN message_pool :
                   i > 1 => Head(message_pool).message_id < message_pool[i].message_id]_vars

\* C38 witness: the first call ended at the ceiling; the second call has
\* dequeued the message that was left, which is the last of the history, and
\* its own user message is the head of the pool; the history of the first
\* call is still there.
C38_Witness ==
    /\ pc[1] = "done"
    /\ last[1] = "timeout"
    /\ pc[2] # "idle"
    /\ Len(message_history) > MAX_ITERATIONS
    /\ message_history[1].sender = "user"
    /\ Last(message_history).sender # "user"
    /\ message_pool # <<>>
    /\ Head(message_pool).sender = "user"
    /\ Head(message_pool).message_id > result[1].message_id

====
